---------------------------- MODULE Spec2Model ----------------------------
(***************************************************************************)
(* Model of the screenshot services of wa-mock-api:                        *)
(*   - the Go handler ScreenshotHandler and the chromedp-backed service    *)
(*     TakeScreenshotFromHTML (specification Spec);                        *)
(*   - the puppeteer-backed ScreenshotService.generateWhatsAppScreenshot   *)
(*     (specification SpecPup);                                            *)
(*   - the Express route POST /api/whatsapp-screenshot: the validation     *)
(*     middleware, the controller and the wkhtmltoimage-backed             *)
(*     ScreenshotService (part of specification Spec: a behaviour follows  *)
(*     requests to the Go endpoint or to the Express route).               *)
(* Strings that the code inspects character by character (formats, file    *)
(* names) are sequences of one-character strings.  Durations are Go        *)
(* time.Duration values, kept as whole seconds plus nanoseconds; the clock *)
(* of the model advances in whole seconds.                                 *)
(***************************************************************************)
EXTENDS Integers, Sequences, FiniteSets, TLC

VARIABLES
    \* ---- Go: ScreenshotHandler
    hpc,            \* position of the handler
    req,            \* the request being handled
    response,       \* the response written by the handler
    \* ---- Go: TakeScreenshotFromHTML
    pc,             \* position of the call
    input,          \* options as passed by the caller
    options,        \* the local copy of the options, after defaulting
    currentTimeout, \* the timeout in use
    tasks,          \* chromedp.Tasks handed to chromedp.Run
    issued,         \* renderer operations issued so far, in order
    finalFormat,    \* "actual format" computed by the service
    buf,            \* the capture buffer: [len, format, quality]
    elapsed,        \* seconds since the operation context was created
    lstart,         \* value of elapsed when the local context was created, -1 if none
    runErr,         \* the error chromedp.Run returned
    result,         \* what the call returned to its caller
    allocOpen,      \* exec allocator context is live
    browserOpen,    \* browser context is live
    allocReleases,  \* number of times cancelAlloc ran
    browserReleases,\* number of times cancelBrowser ran
    \* ---- JS: puppeteer-backed ScreenshotService
    jpc,            \* position of generateWhatsAppScreenshot
    jsOptions,      \* options of the call
    browser,        \* this.browser: "null", "connected", "disconnected"
    chatTemplate,   \* this.chatTemplate is loaded
    pageOpen,       \* the page of this call is open
    pagesOpened,    \* pages opened by browser.newPage()
    pagesClosed,    \* pages closed by page.close()
    jsIssued,       \* page operations issued so far
    jsOutcome,      \* the state of the promise the call returned
    jsCalls,        \* calls of generateWhatsAppScreenshot made so far
    \* ---- the host
    chatData,       \* Go: the ChatData the handler hands to GenerateHTML
    wallClock,      \* the clock of the host, in seconds, as last read
    \* ---- JS: POST /api/whatsapp-screenshot (wkhtmltoimage-backed service)
    rpc,            \* position of the request in the route
    rtReq,          \* req.body as received
    rtBody,         \* req.body after validateRequest replaced it
    rtInvoked,      \* functions behind the middleware entered for this request
    rtTemplate,     \* this.chatTemplate is loaded
    rtCur,          \* the composition of this request: its arguments and document
    rtPrev,         \* the composition of the request before
    rtChunks,       \* 'data' events the stream has emitted
    rtPromise,      \* the promise generateWhatsAppScreenshot returned
    rtResponse,     \* what the route answered
    rtServed,       \* requests the route has taken so far
    \* ---- the markup transforms and the template functions, called one by one
    content,        \* the message body handed to the transforms
    goHTML,         \* Go: what formatContentHTML(content) returned
    jsHTML,         \* JS: what convertWhatsAppToHTML(content) returned
    advHTML,        \* JS: what convertWhatsAppToHTMLAdvanced(content) returned
    msgSender,      \* Go: the sender of a message of a request
    tmsg,           \* Go: the Message handed to messageClass
    class,          \* Go: what messageClass(tmsg) returned
    \* ---- JS: the puppeteer-backed service under concurrent calls
    cpc,            \* position of the constructor, of every caller, of the shutdown
    thisBrowser,    \* this.browser: 0 for null, else the browser it refers to
    thisTemplate,   \* this.chatTemplate is loaded
    mine,           \* the browser each process is launching, 0 if none
    nLaunched,      \* browsers puppeteer.launch was asked for so far
    running         \* browsers that are connected

goVars == <<hpc, req, response, pc, input, options, currentTimeout, tasks, issued,
            finalFormat, buf, elapsed, lstart, runErr, result, allocOpen,
            browserOpen, allocReleases, browserReleases>>
jsVars == <<jpc, jsOptions, browser, chatTemplate, pageOpen, pagesOpened,
            pagesClosed, jsIssued, jsOutcome, jsCalls>>
hostVars == <<chatData, wallClock>>
rtVars == <<rpc, rtReq, rtBody, rtInvoked, rtTemplate, rtCur, rtPrev, rtChunks,
            rtPromise, rtResponse, rtServed>>
fmtVars == <<content, goHTML, jsHTML, advHTML, msgSender, tmsg, class>>
ccVars == <<cpc, thisBrowser, thisTemplate, mine, nLaunched, running>>
vars == <<goVars, jsVars, hostVars, rtVars, fmtVars, ccVars>>

-----------------------------------------------------------------------------
(* Strings *)

Str_png == <<"p", "n", "g">>
Str_jpeg == <<"j", "p", "e", "g">>
Str_JPEG == <<"J", "P", "E", "G">>
Str_empty == <<>>

\* strings.ToLower, on the letters the model uses
LowerRune(c) ==
    CASE c = "J" -> "j"
      [] c = "P" -> "p"
      [] c = "E" -> "e"
      [] c = "G" -> "g"
      [] c = "N" -> "n"
      [] c = "A" -> "a"
      [] c = "B" -> "b"
      [] c = "U" -> "u"
      [] c = "O" -> "o"
      [] c = "T" -> "t"
      [] c = "S" -> "s"
      [] c = "R" -> "r"
      [] OTHER -> c

ToLower(s) == [i \in 1..Len(s) |-> LowerRune(s[i])]

\* strings.HasSuffix
HasSuffix(s, suffix) ==
    /\ Len(suffix) <= Len(s)
    /\ SubSeq(s, Len(s) - Len(suffix) + 1, Len(s)) = suffix

\* strings.ReplaceAll(s, old, "_") for a one-character old
ReplaceAllRune(s, old) == [i \in 1..Len(s) |-> IF s[i] = old THEN "_" ELSE s[i]]

-----------------------------------------------------------------------------
(* WhatsApp markup: formatContentHTML, convertWhatsAppToHTML and
   convertWhatsAppToHTMLAdvanced.  Texts are sequences of one-rune strings. *)

\* the grave accent U+0060, the delimiter of monospace
Grave == "grave"

\* the runes of the model that \w does not match; every other rune of the
\* model is a letter, a digit or the underscore
NonWordRunes == {" ", "\n", "*", "~", Grave, "&", "<", ">", "\"", "'", "#", ";",
                 "/", ".", "!", "(", ")"}

\* \w
IsWord(c) == c \notin NonWordRunes

\* \s, on the runes of the model
IsSpace(c) == c \in {" ", "\n"}

Tag_strong == <<"s", "t", "r", "o", "n", "g">>
Tag_em == <<"e", "m">>
Tag_code == <<"c", "o", "d", "e">>
Tag_del == <<"d", "e", "l">>
Tag_br == <<"b", "r">>

OpenTag(tag) == <<"<">> \o tag \o <<">">>
CloseTag(tag) == <<"<", "/">> \o tag \o <<">">>

Ent_amp == <<"&", "a", "m", "p", ";">>
Ent_lt == <<"&", "l", "t", ";">>
Ent_gt == <<"&", "g", "t", ";">>
Ent_quot == <<"&", "q", "u", "o", "t", ";">>
Ent_39 == <<"&", "#", "3", "9", ";">>

\* strings.ReplaceAll(s, old, new) and s.replace(/old/g, new), old one rune
RECURSIVE ReplaceAll(_, _, _)
ReplaceAll(s, old, new) ==
    IF s = <<>> THEN <<>>
    ELSE (IF Head(s) = old THEN new ELSE <<Head(s)>>) \o ReplaceAll(Tail(s), old, new)

\* the escaping without its second replacement
EscapeHTML_KeepLt(text) ==
    ReplaceAll(ReplaceAll(ReplaceAll(ReplaceAll(text,
        "&", Ent_amp), ">", Ent_gt), "\"", Ent_quot), "'", Ent_39)

\* the escaping with which the three transforms begin, in the order of the code
EscapeHTML(text) ==
    ReplaceAll(ReplaceAll(ReplaceAll(ReplaceAll(ReplaceAll(text,
        "&", Ent_amp), "<", Ent_lt), ">", Ent_gt), "\"", Ent_quot), "'", Ent_39)

\* the first position from i on whose rune is in stop, 0 if there is none
RECURSIVE NextRune(_, _, _)
NextRune(s, i, stop) ==
    IF i > Len(s) THEN 0
    ELSE IF s[i] \in stop THEN i
    ELSE NextRune(s, i + 1, stop)

\* ([^\w]|$) and (?!\w) behind the closing delimiter at q: the following rune
\* is not a word rune, or the text ends
NoWordBehind(s, q) == q = Len(s) \/ ~IsWord(s[q + 1])

\* d([^\sd][^d]*[^\sd]|\S)d followed by a non-word rune or the end, the
\* opening delimiter at p: the position of the closing delimiter, 0 if the
\* text does not match there
FormatSpan(s, d, p) ==
    IF p > Len(s) \/ s[p] # d THEN 0
    ELSE LET q == NextRune(s, p + 1, {d})
         IN  IF q >= p + 3 /\ ~IsSpace(s[p + 1]) /\ ~IsSpace(s[q - 1])
                /\ NoWordBehind(s, q)
             THEN q
             ELSE IF p + 2 <= Len(s) /\ ~IsSpace(s[p + 1]) /\ s[p + 2] = d
                     /\ NoWordBehind(s, p + 2)
             THEN p + 2
             ELSE 0

\* Go: (^|[^\w]) in front of the span, tried at position i: the text starts at
\* i, or the rune at i is not a word rune and is consumed
GoMatch(s, d, i) ==
    IF i = 1 /\ FormatSpan(s, d, 1) > 0
    THEN [p |-> 1, q |-> FormatSpan(s, d, 1)]
    ELSE IF ~IsWord(s[i]) /\ FormatSpan(s, d, i + 1) > 0
    THEN [p |-> i + 1, q |-> FormatSpan(s, d, i + 1)]
    ELSE [p |-> 0, q |-> 0]

\* Go: re.ReplaceAllString(s, "$1<tag>$2</tag>$3") from position i on; the
\* rune ([^\w]|$) matched is consumed, so the next match starts behind it
RECURSIVE GoReplaceAllString(_, _, _, _)
GoReplaceAllString(s, d, tag, i) ==
    IF i > Len(s) THEN <<>>
    ELSE LET m == GoMatch(s, d, i)
             e == IF m.q < Len(s) THEN m.q + 1 ELSE m.q
         IN  IF m.q = 0
             THEN <<s[i]>> \o GoReplaceAllString(s, d, tag, i + 1)
             ELSE SubSeq(s, i, m.p - 1) \o OpenTag(tag) \o SubSeq(s, m.p + 1, m.q - 1)
                  \o CloseTag(tag) \o SubSeq(s, m.q + 1, e)
                  \o GoReplaceAllString(s, d, tag, e + 1)

\* three grave accents at position p
Fence(s, p) == p + 2 <= Len(s) /\ s[p] = Grave /\ s[p + 1] = Grave /\ s[p + 2] = Grave

\* the spans of the patterns that consume nothing around the span, the opening
\* delimiter at p: the position of the closing delimiter, 0 if there is no match
\*   "advanced"  (?<!\w)d([^\sd][^d]*[^\sd]|\S)d(?!\w)
\*   "simple"    d([^d\n]+)d
\*   "code"      three graves, ([^grave]+), three graves
\*   "codeline"  three graves, ([^grave\n]+), three graves
Span(kind, s, d, p) ==
    CASE kind = "advanced" ->
            IF p = 1 \/ ~IsWord(s[p - 1]) THEN FormatSpan(s, d, p) ELSE 0
      [] kind = "simple" ->
            IF s[p] # d THEN 0
            ELSE LET q == NextRune(s, p + 1, {d, "\n"})
                 IN  IF q >= p + 2 /\ s[q] = d THEN q ELSE 0
      [] kind \in {"code", "codeline"} ->
            IF ~Fence(s, p) THEN 0
            ELSE LET q == NextRune(s, p + 3,
                                   IF kind = "code" THEN {Grave} ELSE {Grave, "\n"})
                 IN  IF q >= p + 4 /\ Fence(s, q) THEN q ELSE 0

\* the width of the delimiter of a pattern
DelimiterLen(kind) == IF kind \in {"code", "codeline"} THEN 3 ELSE 1

\* replacement of every match of such a pattern by <tag>$1</tag>, from
\* position i on
RECURSIVE ReplaceSpans(_, _, _, _, _)
ReplaceSpans(kind, s, d, tag, i) ==
    IF i > Len(s) THEN <<>>
    ELSE LET q == Span(kind, s, d, i)
             w == DelimiterLen(kind)
         IN  IF q = 0
             THEN <<s[i]>> \o ReplaceSpans(kind, s, d, tag, i + 1)
             ELSE OpenTag(tag) \o SubSeq(s, i + w, q - 1) \o CloseTag(tag)
                  \o ReplaceSpans(kind, s, d, tag, q + w)

\* Go, part_003 lines 60-90
formatContentHTML(text) ==
    LET escapedText == EscapeHTML(text)
        bold == GoReplaceAllString(escapedText, "*", Tag_strong, 1)
        italic == GoReplaceAllString(bold, "_", Tag_em, 1)
        monospace == ReplaceSpans("code", italic, Grave, Tag_code, 1)
        strikethrough == GoReplaceAllString(monospace, "~", Tag_del, 1)
    IN  ReplaceAll(strikethrough, "\n", OpenTag(Tag_br))

\* JS, whatsapp-chat.html lines 247-279
convertWhatsAppToHTML(message) ==
    LET escaped == EscapeHTML(message)
        bold == ReplaceSpans("simple", escaped, "*", Tag_strong, 1)
        italic == ReplaceSpans("simple", bold, "_", Tag_em, 1)
        monospace == ReplaceSpans("codeline", italic, Grave, Tag_code, 1)
        strikethrough == ReplaceSpans("simple", monospace, "~", Tag_del, 1)
    IN  IF message = <<>> THEN <<>>
        ELSE ReplaceAll(strikethrough, "\n", OpenTag(Tag_br))

\* JS, whatsapp-chat.html lines 282-315
convertWhatsAppToHTMLAdvanced(message) ==
    LET escaped == EscapeHTML(message)
        bold == ReplaceSpans("advanced", escaped, "*", Tag_strong, 1)
        italic == ReplaceSpans("advanced", bold, "_", Tag_em, 1)
        monospace == ReplaceSpans("code", italic, Grave, Tag_code, 1)
        strikethrough == ReplaceSpans("advanced", monospace, "~", Tag_del, 1)
    IN  IF message = <<>> THEN <<>>
        ELSE ReplaceAll(strikethrough, "\n", OpenTag(Tag_br))

-----------------------------------------------------------------------------
(* Template functions *)

\* type Message struct, the fields messageClass and its helpers read
Message(type, author, mediaURL, fileName) ==
    [Type |-> type, Author |-> author, MediaURL |-> mediaURL, FileName |-> fileName]

\* the types the comment of Message.Type lists, and one it does not
MessageTypes == {"message", "system", "image", "video", "audio", "sticker", "contact",
                 "document", "location"}

Messages ==
    { Message(t, a, "", "") : t \in MessageTypes,
                              a \in {<<>>, <<"A", "l", "i", "c", "e">>, <<"B", "o", "t">>} }

TextMessage == Message("message", <<>>, "", "")

\* messageClass, the class list as a sequence of class names
messageClass(msg) ==
    LET baseClass == <<"message">> \o (IF msg.Author = <<>> THEN <<"sent">>
                                                            ELSE <<"received">>)
    IN  IF msg.Type = "system" THEN <<"message", "system-message">>
        ELSE IF msg.Type = "image" THEN baseClass \o <<"image-message">>
        ELSE IF msg.Type = "video" THEN baseClass \o <<"video-message">>
        ELSE IF msg.Type = "audio" THEN baseClass \o <<"audio-message">>
        ELSE IF msg.Type = "sticker" THEN baseClass \o <<"sticker-message">>
        ELSE IF msg.Type = "contact" THEN baseClass \o <<"contact-message">>
        ELSE IF msg.Type = "document" THEN baseClass \o <<"document-message">>
        ELSE baseClass

-----------------------------------------------------------------------------
(* Durations *)

Dur(s, ns) == [s |-> s, ns |-> ns]
DurZero == Dur(0, 0)
IsZeroDur(d) == d.s = 0 /\ d.ns = 0
IsPositiveDur(d) == d.s > 0 \/ d.ns > 0

\* const defaultTimeout = 30 * time.Second
defaultTimeoutSeconds == 30
defaultTimeout == Dur(defaultTimeoutSeconds, 0)

\* context.WithTimeout(ctx, 10*time.Second) of the set-content action
localTimeoutSeconds == 10
localTimeout == Dur(localTimeoutSeconds, 0)

\* the clock of the model advances by this many seconds at a time
TickSeconds == 5

\* a context created with timeout d, e seconds ago, is done
Expired(e, d) == e > d.s \/ (e = d.s /\ d.ns = 0)

\* faulty variant: no default selector
DefaultSelector_None == ""

DefaultSelector == ".chat-container"

\* time.Second, a count of nanoseconds
NanosPerSecond == 1000000000

\* encoding/json decodes a JSON number into a time.Duration, an int64 that
\* counts nanoseconds
UnmarshalDuration(n) == Dur(n \div NanosPerSecond, n % NanosPerSecond)

-----------------------------------------------------------------------------
(* The clock of the host *)

\* the last instant the model follows, in seconds
MaxClock == 61

\* the time that can pass between two readings of the clock
ClockSteps == {0, 60}

\* the instants a reading made after instant c can return
Later(c) == {c + d : d \in ClockSteps} \cap 0..MaxClock

\* n successive readings of the clock, the first made after instant c
RECURSIVE Readings(_, _)
Readings(c, n) ==
    IF n = 0
    THEN {<<>>}
    ELSE UNION {{<<t>> \o rest : rest \in Readings(t, n - 1)} : t \in Later(c)}

\* time.Now().Format("150405")
Format150405(c) == <<(c \div 3600) % 24, (c \div 60) % 60, c % 60>>


-----------------------------------------------------------------------------
(* Inputs *)

Widths == {-5, 0, 400}
Heights == {0, 700}
Selectors == {"", ".x"}
Qualities == {-1, 0, 1, 80, 100, 101}
Formats == {Str_empty, Str_png, Str_jpeg, Str_JPEG}
Timeouts == {DurZero, Dur(0, 30), Dur(5, 0), Dur(12, 0)}

\* type ScreenshotOptions struct: the options the model calls the service with.
\* Three slices of the product of the sets above: every size, selector, mode
\* and timeout with format and quality unset; every format, quality, selector
\* and mode with size and timeout unset; and JPEG requests with a size, under
\* every timeout.
ScreenshotOptions ==
    [Width : Widths, Height : Heights, Selector : Selectors, Quality : {0},
     Format : {Str_empty}, IsFullPage : BOOLEAN, Timeout : Timeouts]
    \cup
    [Width : {0}, Height : {0}, Selector : Selectors, Quality : Qualities,
     Format : Formats, IsFullPage : BOOLEAN, Timeout : {DurZero}]
    \cup
    [Width : {400}, Height : {700}, Selector : Selectors, Quality : {80, 101},
     Format : {Str_jpeg, Str_JPEG}, IsFullPage : BOOLEAN, Timeout : Timeouts]

NoOptions == [Width |-> 0, Height |-> 0, Selector |-> "", Quality |-> 0,
              Format |-> Str_empty, IsFullPage |-> FALSE, Timeout |-> DurZero]

-----------------------------------------------------------------------------
(* TakeScreenshotFromHTML: option defaulting *)

DefaultWidth(o) == IF o.Width = 0 THEN [o EXCEPT !.Width = 1280] ELSE o

\* faulty variant: the height defaults to the default width
DefaultHeight_AsWidth(o) == IF o.Height = 0 THEN [o EXCEPT !.Height = 1280] ELSE o

DefaultHeight(o) == IF o.Height = 0 THEN [o EXCEPT !.Height = 720] ELSE o

DefaultFormat(o) == IF o.Format = Str_empty THEN [o EXCEPT !.Format = Str_png] ELSE o

\* faulty variant: only a quality above 100 is reset, a negative one is kept
DefaultQuality_OnlyHigh(o) ==
    IF o.Quality = 0 /\ ToLower(o.Format) = Str_jpeg
    THEN [o EXCEPT !.Quality = 90]
    ELSE IF o.Quality > 100 /\ ToLower(o.Format) = Str_jpeg
         THEN [o EXCEPT !.Quality = 90]
         ELSE o

DefaultQuality(o) ==
    IF o.Quality = 0 /\ ToLower(o.Format) = Str_jpeg
    THEN [o EXCEPT !.Quality = 90]
    ELSE IF o.Quality < 1 \/ o.Quality > 100
         THEN IF ToLower(o.Format) = Str_jpeg
              THEN [o EXCEPT !.Quality = 90]
              ELSE o
         ELSE o

ApplyDefaults(o) == DefaultQuality(DefaultFormat(DefaultHeight(DefaultWidth(o))))

CurrentTimeout(o) == IF IsZeroDur(o.Timeout) THEN defaultTimeout ELSE o.Timeout

-----------------------------------------------------------------------------
(* TakeScreenshotFromHTML: the task list and the actual format *)

\* one chromedp action, with the arguments the code gives it
Task(op, sel, w, h, q) == [op |-> op, sel |-> sel, w |-> w, h |-> h, q |-> q]

\* the tasks every capture starts with; the set-content ActionFunc makes two
\* renderer calls under its own context
BaseTasks(o) ==
    << Task("Navigate", "", 0, 0, 0),
       Task("GetFrameTree", "", 0, 0, 0),
       Task("SetDocumentContent", "", 0, 0, 0),
       Task("EmulateViewport", "", o.Width, o.Height, 0) >>

\* faulty variant: the quality is forwarded whatever the format
QualityForFull_Always(o) == o.Quality

\* the quality handed to chromedp.FullScreenshot
QualityForFull(o) == IF ToLower(o.Format) = Str_jpeg THEN o.Quality ELSE 0

\* faulty variant: the selector is looked at before IsFullPage
CaptureTasks_SelectorFirst(o) ==
    IF o.Selector # ""
    THEN << Task("WaitVisible", o.Selector, 0, 0, 0),
            Task("LogVisible", o.Selector, 0, 0, 0),
            Task("Screenshot", o.Selector, 0, 0, 0) >>
    ELSE IF o.IsFullPage
         THEN << Task("FullScreenshot", "", 0, 0, QualityForFull(o)) >>
         ELSE << Task("CaptureScreenshot", "", 0, 0, 0) >>

CaptureTasks(o) ==
    IF o.IsFullPage
    THEN << Task("FullScreenshot", "", 0, 0, QualityForFull(o)) >>
    ELSE IF o.Selector # ""
         THEN << Task("WaitVisible", o.Selector, 0, 0, 0),
                 Task("LogVisible", o.Selector, 0, 0, 0),
                 Task("Screenshot", o.Selector, 0, 0, 0) >>
         ELSE << Task("CaptureScreenshot", "", 0, 0, 0) >>

BuildTasks(o) == BaseTasks(o) \o CaptureTasks(o)

\* faulty variant: the requested format is taken as the actual one in every mode
FinalFormat_Requested(o) == IF ToLower(o.Format) = Str_jpeg THEN Str_jpeg ELSE Str_png

FinalFormat(o) ==
    IF o.IsFullPage
    THEN IF ToLower(o.Format) = Str_jpeg THEN Str_jpeg ELSE Str_png
    ELSE Str_png

\* chromedp.Run first allocates the browser, then runs the tasks in order
RunOps(t) == << Task("Allocate", "", 0, 0, 0) >> \o t

CaptureOps == {"FullScreenshot", "Screenshot", "CaptureScreenshot"}

\* what the renderer writes for a capture: FullScreenshot encodes JPEG at the
\* quality it is given and PNG for the sentinel 0 (comment at the call); the
\* element and viewport captures write PNG
RenderedFormat(t) == IF t.op = "FullScreenshot" /\ t.q # 0 THEN Str_jpeg ELSE Str_png

NoBuf == [len |-> 0, format |-> Str_empty, quality |-> 0]


-----------------------------------------------------------------------------
(* TakeScreenshotFromHTML: the call *)

\* lines 30-132: defaulting, the three contexts, the task list
Begin(o) ==
    /\ pc = "idle"
    /\ input' = o
    /\ options' = ApplyDefaults(o)
    /\ currentTimeout' = CurrentTimeout(o)
    /\ allocOpen' = TRUE
    /\ browserOpen' = TRUE
    /\ elapsed' = 0
    /\ tasks' = BuildTasks(ApplyDefaults(o))
    /\ finalFormat' = FinalFormat(ApplyDefaults(o))
    /\ pc' = "run"
    /\ UNCHANGED <<issued, buf, lstart, runErr, result, allocReleases, browserReleases,
                   jsVars, rtVars>>

\* the operation in flight
Current == RunOps(tasks)[Len(issued)]

\* the operation context, or the local context of the set-content action, is done
OperationCtxDone == Expired(elapsed, currentTimeout)
LocalCtxDone == lstart >= 0 /\ Expired(elapsed - lstart, localTimeout)
CtxDone == OperationCtxDone \/ LocalCtxDone

\* chromedp.Run issues the next operation
Issue ==
    /\ pc = "run"
    /\ Len(issued) < Len(RunOps(tasks))
    /\ LET t == RunOps(tasks)[Len(issued) + 1] IN
        /\ issued' = Append(issued, t)
        /\ lstart' = IF t.op = "GetFrameTree" THEN elapsed ELSE lstart
    /\ pc' = "inflight"
    /\ UNCHANGED <<hpc, req, response, input, options, currentTimeout, tasks,
                   finalFormat, buf, elapsed, runErr, result, allocOpen, browserOpen,
                   allocReleases, browserReleases, jsVars, hostVars, rtVars, fmtVars,
                   ccVars>>

\* time passes while the renderer works on the operation in flight
Tick ==
    /\ pc \in {"inflight", "hung"}
    /\ ~CtxDone
    /\ elapsed' = elapsed + TickSeconds
    /\ UNCHANGED <<hpc, req, response, pc, input, options, currentTimeout, tasks,
                   issued, finalFormat, buf, lstart, runErr, result, allocOpen,
                   browserOpen, allocReleases, browserReleases, jsVars, hostVars, rtVars,
                   fmtVars, ccVars>>

\* the operation in flight returns without error; a capture fills the buffer,
\* possibly with no bytes
OpComplete ==
    /\ pc = "inflight"
    /\ ~CtxDone
    /\ \E n \in {0, 1} :
        buf' = IF Current.op \in CaptureOps
               THEN [len |-> n, format |-> RenderedFormat(Current), quality |-> Current.q]
               ELSE buf
    /\ lstart' = IF Current.op = "SetDocumentContent" THEN -1 ELSE lstart
    /\ IF Len(issued) = Len(RunOps(tasks))
       THEN pc' = "ran" /\ runErr' = "nil"
       ELSE pc' = "run" /\ runErr' = runErr
    /\ UNCHANGED <<hpc, req, response, input, options, currentTimeout, tasks, issued,
                   finalFormat, elapsed, result, allocOpen, browserOpen,
                   allocReleases, browserReleases, jsVars, hostVars, rtVars, fmtVars,
                   ccVars>>

\* faulty variant: the operation that failed is issued again
OpFail_Retry ==
    /\ pc = "inflight"
    /\ ~CtxDone
    /\ Current.op # "LogVisible"
    /\ issued' = Append(issued, Current)
    /\ UNCHANGED <<hpc, req, response, pc, input, options, currentTimeout, tasks,
                   finalFormat, buf, elapsed, lstart, runErr, result, allocOpen,
                   browserOpen, allocReleases, browserReleases, jsVars, hostVars, rtVars,
                   fmtVars, ccVars>>

\* the operation in flight returns an error of the renderer before its context
\* is done; the logging ActionFunc of the element capture returns nil always
OpFail ==
    /\ pc = "inflight"
    /\ ~CtxDone
    /\ Current.op # "LogVisible"
    /\ runErr' = "other"
    /\ pc' = "ran"
    /\ UNCHANGED <<hpc, req, response, input, options, currentTimeout, tasks, issued,
                   finalFormat, buf, elapsed, lstart, result, allocOpen, browserOpen,
                   allocReleases, browserReleases, jsVars, hostVars, rtVars, fmtVars,
                   ccVars>>

\* the renderer never answers the operation in flight (an element that never
\* becomes visible, a stalled browser): only its context can end it
OpHang ==
    /\ pc = "inflight"
    /\ Current.op # "LogVisible"
    /\ pc' = "hung"
    /\ UNCHANGED <<hpc, req, response, input, options, currentTimeout, tasks, issued,
                   finalFormat, buf, elapsed, lstart, runErr, result, allocOpen,
                   browserOpen, allocReleases, browserReleases, jsVars, hostVars, rtVars,
                   fmtVars, ccVars>>

\* the context of the operation in flight is done: the operation returns an
\* error that reads "context deadline exceeded"
OpDeadline ==
    /\ pc \in {"inflight", "hung"}
    /\ CtxDone
    /\ runErr' = "context deadline exceeded"
    /\ pc' = "ran"
    /\ UNCHANGED <<hpc, req, response, input, options, currentTimeout, tasks, issued,
                   finalFormat, buf, elapsed, lstart, result, allocOpen, browserOpen,
                   allocReleases, browserReleases, jsVars, hostVars, rtVars, fmtVars,
                   ccVars>>

\* faulty variant: the error text is not looked at
Outcome_NoDeadline(err, b) ==
    IF err # "nil" THEN "failed" ELSE IF b.len = 0 THEN "empty buffer" ELSE "ok"

\* lines 134-151: the value returned for the outcome of chromedp.Run
Outcome(err, b) ==
    IF err # "nil"
    THEN IF err = "context deadline exceeded" THEN "timed out" ELSE "failed"
    ELSE IF b.len = 0 THEN "empty buffer" ELSE "ok"

\* faulty variant: cancelBrowser is not deferred
RunDefers_OnlyAlloc ==
    /\ allocOpen' = FALSE
    /\ allocReleases' = allocReleases + 1
    /\ UNCHANGED <<browserOpen, browserReleases>>

\* the deferred cancelOperation, cancelBrowser and cancelAlloc
RunDefers ==
    /\ browserOpen' = FALSE
    /\ browserReleases' = browserReleases + 1
    /\ allocOpen' = FALSE
    /\ allocReleases' = allocReleases + 1

\* the call returns: the outcome is decided, then the deferred calls run
Return ==
    /\ pc = "ran"
    /\ result' = Outcome(runErr, buf)
    /\ RunDefers
    /\ pc' = "returned"
    /\ UNCHANGED <<hpc, req, response, input, options, currentTimeout, tasks, issued,
                   finalFormat, buf, elapsed, lstart, runErr, jsVars, hostVars, rtVars,
                   fmtVars, ccVars>>


-----------------------------------------------------------------------------
(* ScreenshotHandler *)

FileNames == { Str_empty,
               <<"a">>,
               <<"a", ".", "p", "n", "g">>,
               <<"a", "/", "b", ".", "J", "P", "E", "G">> }

\* the timeout numbers of the screenshotOptions objects of the model's requests
JSONTimeouts == {0, 30, 2000000000}

\* the screenshotOptions objects of the request bodies: the fields of
\* ScreenshotOptions, the timeout a JSON number; the same three slices as
\* ScreenshotOptions
ScreenshotOptionsJSON ==
    [Width : Widths, Height : Heights, Selector : Selectors, Quality : {0},
     Format : {Str_empty}, IsFullPage : BOOLEAN, Timeout : JSONTimeouts]
    \cup
    [Width : {0}, Height : {0}, Selector : Selectors, Quality : Qualities,
     Format : Formats, IsFullPage : BOOLEAN, Timeout : {0}]
    \cup
    [Width : {400}, Height : {700}, Selector : Selectors, Quality : {80, 101},
     Format : {Str_jpeg, Str_JPEG}, IsFullPage : BOOLEAN, Timeout : JSONTimeouts]

NoOptionsJSON == [Width |-> 0, Height |-> 0, Selector |-> "", Quality |-> 0,
                  Format |-> Str_empty, IsFullPage |-> FALSE, Timeout |-> 0]

\* json.Decoder.Decode into *services.ScreenshotOptions
UnmarshalOptions(j) == [j EXCEPT !.Timeout = UnmarshalDuration(j.Timeout)]

\* the content of the messages of the model's requests: "a_b_c *Hi*"
Str_Content == <<"a", "_", "b", "_", "c", " ", "*", "H", "i", "*">>

\* type RequestMessage struct, the fields the handler reads
RequestMessage(sender, timestamp) ==
    [Sender |-> sender, Content |-> Str_Content, Timestamp |-> timestamp]

Str_Bot == <<"B", "o", "t">>
Str_user == <<"u", "s", "e", "r">>
Str_Alice == <<"A", "l", "i", "c", "e">>

OneMessage == << RequestMessage(Str_Alice, "10:00") >>

\* the messages arrays of the model's requests
GoTranscripts ==
    { <<>>,
      OneMessage,
      << RequestMessage(Str_Bot, "2025-05-22T16:48:26.858Z"),
         RequestMessage(Str_user, "12:00") >> }

\* a request: its method, whether its body decodes into ScreenshotRequest,
\* whether the template can be rendered, the body's fields, and the
\* ScreenshotOptions its screenshotOptions object decodes into
Request(m, bodyOK, templateOK, msgs, hasOptions, j, name) ==
    [Method |-> m, BodyOK |-> bodyOK, TemplateOK |-> templateOK,
     Messages |-> msgs, ChatName |-> "Support Chat", LastSeen |-> "online",
     HasOptions |-> hasOptions, OptionsJSON |-> j,
     ScreenshotOptions |-> UnmarshalOptions(j), OutputFileName |-> name]

Requests ==
    { Request("GET", TRUE, TRUE, OneMessage, FALSE, NoOptionsJSON, Str_empty),
      Request("POST", FALSE, TRUE, <<>>, FALSE, NoOptionsJSON, Str_empty),
      Request("POST", TRUE, FALSE, OneMessage, FALSE, NoOptionsJSON, Str_empty) }
    \cup { Request("POST", TRUE, TRUE, OneMessage, FALSE, NoOptionsJSON, n) :
             n \in FileNames }
    \cup { Request("POST", TRUE, TRUE, t, FALSE, NoOptionsJSON, Str_empty) :
             t \in GoTranscripts }
    \cup { Request("POST", TRUE, TRUE, <<>>, TRUE, j, Str_empty) :
             j \in ScreenshotOptionsJSON }
    \cup { Request("POST", TRUE, TRUE, OneMessage, TRUE, j, n) :
             j \in [Width : {0}, Height : {0}, Selector : Selectors, Quality : {0},
                    Format : Formats, IsFullPage : BOOLEAN, Timeout : {0}],
             n \in FileNames }

\* faulty variant: a request without a selector keeps the empty selector
ActiveScreenshotOptions_EmptySelector(r) ==
    LET d == [Width |-> 1280, Height |-> 720, Selector |-> "",
              IsFullPage |-> FALSE, Format |-> Str_png, Quality |-> 90,
              Timeout |-> Dur(30, 0)]
        o == r.ScreenshotOptions
        fmt == IF o.Format # Str_empty THEN ToLower(o.Format) ELSE d.Format
    IN  IF ~r.HasOptions
        THEN d
        ELSE [Width |-> IF o.Width > 0 THEN o.Width ELSE d.Width,
              Height |-> IF o.Height > 0 THEN o.Height ELSE d.Height,
              Selector |-> o.Selector,
              IsFullPage |-> o.IsFullPage,
              Format |-> fmt,
              Quality |-> IF o.Quality > 0 /\ fmt = Str_jpeg THEN o.Quality ELSE d.Quality,
              Timeout |-> IF IsPositiveDur(o.Timeout) THEN o.Timeout ELSE d.Timeout]

\* lines 126-156: the options the handler passes to the service
ActiveScreenshotOptions(r) ==
    LET d == [Width |-> 1280, Height |-> 720, Selector |-> DefaultSelector,
              IsFullPage |-> FALSE, Format |-> Str_png, Quality |-> 90,
              Timeout |-> Dur(30, 0)]
        o == r.ScreenshotOptions
        fmt == IF o.Format # Str_empty THEN ToLower(o.Format) ELSE d.Format
    IN  IF ~r.HasOptions
        THEN d
        ELSE [Width |-> IF o.Width > 0 THEN o.Width ELSE d.Width,
              Height |-> IF o.Height > 0 THEN o.Height ELSE d.Height,
              Selector |-> IF o.Selector # "" THEN o.Selector ELSE d.Selector,
              IsFullPage |-> o.IsFullPage,
              Format |-> fmt,
              Quality |-> IF o.Quality > 0 /\ fmt = Str_jpeg THEN o.Quality ELSE d.Quality,
              Timeout |-> IF IsPositiveDur(o.Timeout) THEN o.Timeout ELSE d.Timeout]

\* http.Error(w, msg, code): the message is written as plain text
HttpError(code, msg) ==
    [status |-> code, contentType |-> "text/plain; charset=utf-8",
     disposition |-> "", filename |-> Str_empty,
     body |-> [kind |-> "text", text |-> msg]]

NoResponse ==
    [status |-> 0, contentType |-> "", disposition |-> "", filename |-> Str_empty,
     body |-> [kind |-> "none", text |-> ""]]

\* lines 181-184
ContentType(o) == IF o.Format = Str_jpeg THEN "image/jpeg" ELSE "image/png"

\* lines 190-195
SafeFileName(name, o) ==
    LET safe == ReplaceAllRune(ReplaceAllRune(ReplaceAllRune(name, "\""), "/"), "\\")
    IN  IF ~HasSuffix(ToLower(safe), <<".">> \o o.Format)
        THEN safe \o <<".">> \o o.Format
        ELSE safe

\* line 198
DefaultFileName(o) ==
    << "w", "h", "a", "t", "s", "a", "p", "p", "-", "c", "h", "a", "t", "-",
       "s", "c", "r", "e", "e", "n", "s", "h", "o", "t", "." >> \o o.Format

\* lines 181-205
ImageResponse(r, o) ==
    [status |-> 200, contentType |-> ContentType(o),
     disposition |-> IF r.OutputFileName # Str_empty THEN "attachment" ELSE "inline",
     filename |-> IF r.OutputFileName # Str_empty
                  THEN SafeFileName(r.OutputFileName, o)
                  ELSE DefaultFileName(o),
     body |-> [kind |-> "bytes", text |-> ""]]

\* type ChatData struct, before the handler has built one
NoChatData == [ChatName |-> "", Messages |-> <<>>, Width |-> 0,
               HeaderLineText |-> "", LastSeen |-> ""]

\* the RawMessage whose author is emptied by a comparison that minds the case
RawMessage_CaseSensitive(rm, i, now) ==
    [ID |-> <<"msg", i - 1, Format150405(now)>>,
     Author |-> IF rm.Sender = <<"b", "o", "t">> \/ rm.Sender = Str_user
                THEN Str_empty ELSE rm.Sender,
     Content |-> rm.Content,
     Timestamp |-> rm.Timestamp,
     Type |-> "message"]

\* lines 103-120: the RawMessage of the i-th message, built at instant now
RawMessage(rm, i, now) ==
    [ID |-> <<"msg", i - 1, Format150405(now)>>,
     Author |-> IF ToLower(rm.Sender) = <<"b", "o", "t">> \/ ToLower(rm.Sender) = Str_user
                THEN Str_empty ELSE rm.Sender,
     Content |-> rm.Content,
     Timestamp |-> rm.Timestamp,
     Type |-> "message"]

\* lines 95-120 and 159: the RawChatData of request r, its i-th message built
\* at instant nows[i], with width w
RawChatData(r, nows, w) ==
    [ChatName |-> r.ChatName, HeaderLineText |-> r.ChatName, LastSeen |-> r.LastSeen,
     Messages |-> [i \in 1..Len(r.Messages) |-> RawMessage(r.Messages[i], i, nows[i])],
     Width |-> w]

\* ProcessChatData, the fields the model follows: the identifier, the author,
\* the formatted content, the timestamp and the type of each message and the
\* header fields
ProcessChatData(rawData) ==
    [ChatName |-> rawData.ChatName,
     Messages |-> [i \in 1..Len(rawData.Messages) |->
                     [ID |-> rawData.Messages[i].ID,
                      Author |-> rawData.Messages[i].Author,
                      Content |-> formatContentHTML(rawData.Messages[i].Content),
                      FormattedContent |->
                          formatContentHTML(rawData.Messages[i].Content),
                      Timestamp |-> rawData.Messages[i].Timestamp,
                      Type |-> rawData.Messages[i].Type]],
     Width |-> rawData.Width,
     HeaderLineText |-> rawData.HeaderLineText,
     LastSeen |-> rawData.LastSeen]

\* lines 80-173: the handler up to its call of TakeScreenshotFromHTML
ScreenshotHandlerBegin(r) ==
    /\ hpc = "idle"
    /\ req' = r
    /\ IF r.Method # "POST"
       THEN /\ response' = HttpError(405, "Only POST requests are allowed")
            /\ hpc' = "done"
            /\ UNCHANGED <<pc, input, options, currentTimeout, tasks, issued, finalFormat,
                           buf, elapsed, lstart, runErr, result, allocOpen, browserOpen,
                           allocReleases, browserReleases, jsVars, rtVars, hostVars,
                           fmtVars, ccVars>>
       ELSE IF ~r.BodyOK
       THEN /\ response' = HttpError(400, "Invalid JSON payload")
            /\ hpc' = "done"
            /\ UNCHANGED <<pc, input, options, currentTimeout, tasks, issued, finalFormat,
                           buf, elapsed, lstart, runErr, result, allocOpen, browserOpen,
                           allocReleases, browserReleases, jsVars, rtVars, hostVars,
                           fmtVars, ccVars>>
       ELSE \E nows \in Readings(wallClock, Len(r.Messages)) :
            /\ wallClock' = IF nows = <<>> THEN wallClock ELSE nows[Len(nows)]
            /\ chatData' = ProcessChatData(
                               RawChatData(r, nows, ActiveScreenshotOptions(r).Width))
            /\ UNCHANGED <<fmtVars, ccVars>>
            /\ IF ~r.TemplateOK
               THEN /\ response' = HttpError(500, "Failed to generate HTML content")
                    /\ hpc' = "done"
                    /\ UNCHANGED <<pc, input, options, currentTimeout, tasks, issued,
                                   finalFormat, buf, elapsed, lstart, runErr, result,
                                   allocOpen, browserOpen, allocReleases,
                                   browserReleases, jsVars, rtVars>>
               ELSE /\ Begin(ActiveScreenshotOptions(r))
                    /\ hpc' = "screenshot"
                    /\ UNCHANGED response

\* lines 174-206: the handler after TakeScreenshotFromHTML returned
ScreenshotHandlerRespond ==
    /\ hpc = "screenshot"
    /\ pc = "returned"
    /\ response' = IF result # "ok"
                   THEN HttpError(500, "Failed to take screenshot")
                   ELSE ImageResponse(req, input)
    /\ hpc' = "done"
    /\ UNCHANGED <<req, pc, input, options, currentTimeout, tasks, issued, finalFormat,
                   buf, elapsed, lstart, runErr, result, allocOpen, browserOpen,
                   allocReleases, browserReleases, jsVars, hostVars, rtVars, fmtVars,
                   ccVars>>

\* a caller other than the handler (the service's tests) calls the service
DirectCall(o) ==
    /\ hpc = "idle"
    /\ Begin(o)
    /\ hpc' = "direct"
    /\ UNCHANGED <<req, response, hostVars, fmtVars, ccVars>>

-----------------------------------------------------------------------------
(* The puppeteer-backed ScreenshotService (src/src/routes/screenshot.routes.js) *)

\* calls of generateWhatsAppScreenshot made one after another in a run
MaxCalls == 2

JsWidths == {"unset", "400"}
JsFormats == {"png", "jpeg", "webp"}
JsQualities == {"high", "medium", "low"}
JsOptions == [width : JsWidths, format : JsFormats, quality : JsQualities]

NoJsOptions == [width |-> "unset", format |-> "png", quality |-> "high"]

\* the quality given to page.screenshot, 0 when none is set
JsScreenshotQuality(o) ==
    IF o.format = "jpeg" \/ o.format = "webp"
    THEN IF o.quality = "high" THEN 90 ELSE IF o.quality = "medium" THEN 70 ELSE 50
    ELSE 0

\* a thrown value: an Error of a library, or new ApiError(statusCode, message)
Thrown(name, status, message) == [name |-> name, status |-> status, message |-> message]

NoError == Thrown("", 0, "")

\* errors puppeteer and fs reject with
LibraryErrors == {Thrown("Error", 0, "ENOENT"), Thrown("TimeoutError", 0, "timed out")}

\* the ApiError the catch block of generateChatHTML throws
ChatHTMLError == Thrown("ApiError", 500, "Failed to generate chat HTML")

\* the ApiErrors thrown when page.$('body') or boundingBox() returns null
NullError(op) ==
    IF op = "$body"
    THEN Thrown("ApiError", 500, "Failed to get body handle for height calculation")
    ELSE Thrown("ApiError", 500, "Failed to get bounding box for height calculation")

\* faulty variant: an ApiError that reaches the catch block is thrown on
CatchBlock_KeepApiError(error) ==
    IF error.name = "ApiError"
    THEN error
    ELSE Thrown("ApiError", 500, "Failed to generate screenshot")

\* the catch block of generateWhatsAppScreenshot: whatever was caught, a new
\* ApiError is thrown
CatchBlock(error) == Thrown("ApiError", 500, "Failed to generate screenshot")

\* the promise of a call whose try block threw error: the catch block logs
\* the error and rejects with the one it throws
JsRejected(error) ==
    [state |-> "rejected", name |-> CatchBlock(error).name,
     status |-> CatchBlock(error).status, message |-> CatchBlock(error).message,
     logged |-> error]
JsResolved(o) ==
    [state |-> "resolved", name |-> "", status |-> 200, message |-> o.format,
     logged |-> NoError]
JsPending == [state |-> "pending", name |-> "", status |-> 0, message |-> "", logged |-> NoError]

InitJs ==
    /\ jpc = "new"
    /\ jsOptions = NoJsOptions
    /\ browser = "null"
    /\ chatTemplate = FALSE
    /\ pageOpen = FALSE
    /\ pagesOpened = 0
    /\ pagesClosed = 0
    /\ jsIssued = <<>>
    /\ jsOutcome = JsPending
    /\ jsCalls = 0

\* constructor and initializeBrowser: the template is read, then the browser
\* is launched; either may fail
JsConstructor ==
    /\ jpc = "new"
    /\ \E templateOK \in BOOLEAN, launchOK \in BOOLEAN :
        /\ chatTemplate' = templateOK
        /\ browser' = IF templateOK /\ launchOK THEN "connected" ELSE "null"
    /\ jpc' = "idle"
    /\ UNCHANGED <<jsOptions, pageOpen, pagesOpened, pagesClosed, jsIssued, jsOutcome,
                   jsCalls, goVars, hostVars, rtVars, fmtVars, ccVars>>

\* the browser process ends while no call is running; its pages end with it
JsBrowserDisconnect ==
    /\ jpc = "idle"
    /\ browser = "connected"
    /\ browser' = "disconnected"
    /\ pageOpen' = FALSE
    /\ UNCHANGED <<jpc, jsOptions, chatTemplate, pagesOpened, pagesClosed, jsIssued,
                   jsOutcome, jsCalls, goVars, hostVars, rtVars, fmtVars, ccVars>>

\* generateWhatsAppScreenshot is called: generateChatHTML loads the template on
\* demand and builds the document; it may throw
JsCall(o) ==
    /\ jpc = "idle"
    /\ jsCalls < MaxCalls
    /\ jsCalls' = jsCalls + 1
    /\ jsOptions' = o
    /\ jsIssued' = <<>>
    /\ pageOpen' = FALSE
    /\ \E htmlOK \in BOOLEAN :
        IF htmlOK
        THEN /\ chatTemplate' = TRUE
             /\ jsOutcome' = JsPending
             /\ jpc' = "ensureBrowser"
        ELSE /\ chatTemplate' = chatTemplate
             /\ jsOutcome' = JsRejected(ChatHTMLError)
             /\ jpc' = "idle"
    /\ UNCHANGED <<browser, pagesOpened, pagesClosed, goVars, hostVars, rtVars, fmtVars,
                   ccVars>>

JsGenerate == jpc = "idle" /\ \E o \in JsOptions : JsCall(o)

\* if (!this.browser || !this.browser.isConnected()) await this.initializeBrowser()
JsEnsureBrowser ==
    /\ jpc = "ensureBrowser"
    /\ IF browser = "connected"
       THEN /\ jpc' = "newPage"
            /\ UNCHANGED <<browser, jsOutcome>>
       ELSE \E launchOK \in BOOLEAN :
            IF launchOK
            THEN /\ browser' = "connected"
                 /\ jpc' = "newPage"
                 /\ UNCHANGED jsOutcome
            ELSE /\ browser' = "null"
                 /\ \E error \in LibraryErrors : jsOutcome' = JsRejected(error)
                 /\ jpc' = "idle"
    /\ UNCHANGED <<jsOptions, chatTemplate, pageOpen, pagesOpened, pagesClosed, jsIssued,
                   jsCalls, goVars, hostVars, rtVars, fmtVars, ccVars>>

\* const page = await this.browser.newPage()
JsNewPage ==
    /\ jpc = "newPage"
    /\ \E ok \in BOOLEAN :
        IF ok
        THEN /\ pageOpen' = TRUE
             /\ pagesOpened' = pagesOpened + 1
             /\ jpc' = "setContent"
             /\ UNCHANGED jsOutcome
        ELSE /\ \E error \in LibraryErrors : jsOutcome' = JsRejected(error)
             /\ jpc' = "idle"
             /\ UNCHANGED <<pageOpen, pagesOpened>>
    /\ UNCHANGED <<jsOptions, browser, chatTemplate, pagesClosed, jsIssued, jsCalls, goVars, hostVars, rtVars,
                    fmtVars, ccVars>>

\* the page operations in the order the code awaits them
JsPageOps == <<"setContent", "$body", "boundingBox", "dispose", "setViewport", "screenshot">>

JsNextOp(op) ==
    CASE op = "setContent" -> "$body"
      [] op = "$body" -> "boundingBox"
      [] op = "boundingBox" -> "dispose"
      [] op = "dispose" -> "setViewport"
      [] op = "setViewport" -> "screenshot"
      [] OTHER -> "idle"

\* await page.close()
JsPageClose ==
    /\ pageOpen' = FALSE
    /\ pagesClosed' = pagesClosed + 1

\* one awaited page operation returns a value
JsOpOk ==
    /\ jpc \in {JsPageOps[i] : i \in 1..Len(JsPageOps)}
    /\ jsIssued' = Append(jsIssued, jpc)
    /\ jpc' = JsNextOp(jpc)
    /\ jsOutcome' = IF jpc = "screenshot" THEN JsResolved(jsOptions) ELSE jsOutcome
    /\ UNCHANGED <<jsOptions, browser, chatTemplate, pageOpen, pagesOpened, pagesClosed,
                   jsCalls, goVars, hostVars, rtVars, fmtVars, ccVars>>

\* page.$('body') or bodyHandle.boundingBox() returns null: the page is closed
\* and an ApiError is thrown, which the catch block replaces
JsOpNull ==
    /\ jpc \in {"$body", "boundingBox"}
    /\ jsIssued' = Append(jsIssued, jpc)
    /\ JsPageClose
    /\ jsOutcome' = JsRejected(NullError(jpc))
    /\ jpc' = "idle"
    /\ UNCHANGED <<jsOptions, browser, chatTemplate, pagesOpened, jsCalls, goVars, hostVars, rtVars,
                    fmtVars, ccVars>>

\* one awaited page operation throws: control goes to the catch block
JsOpThrow ==
    /\ jpc \in {JsPageOps[i] : i \in 1..Len(JsPageOps)}
    /\ jsIssued' = Append(jsIssued, jpc)
    /\ \E error \in LibraryErrors : jsOutcome' = JsRejected(error)
    /\ jpc' = "idle"
    /\ UNCHANGED <<jsOptions, browser, chatTemplate, pageOpen, pagesOpened, pagesClosed,
                   jsCalls, goVars, hostVars, rtVars, fmtVars, ccVars>>

NextPup ==
    \/ JsConstructor
    \/ JsBrowserDisconnect
    \/ JsGenerate
    \/ JsEnsureBrowser
    \/ JsNewPage
    \/ JsOpOk
    \/ JsOpNull
    \/ JsOpThrow

-----------------------------------------------------------------------------
(* POST /api/whatsapp-screenshot: validateScreenshotRequest, generateScreenshot *)
(* and the wkhtmltoimage-backed ScreenshotService                              *)

\* requests the route takes one after another in a run
MaxRequests == 2

\* 'data' events a stream emits at most
MaxChunks == 2

Str_Customer == <<"C", "u", "s", "t", "o", "m", "e", "r">>
Str_Unknown == <<"U", "n", "k", "n", "o", "w", "n">>
Str_john == <<"j", "o", "h", "n">>
Str_phone62 == <<"+", "6", "2", "8", "1", "2", "3", "4", "5", "6", "7", "8", "9">>
Str_phone08 == <<"0", "8", "1", "2", "3", "4", "5", "6">>

\* a timestamp string: whether it is an ISO 8601 date, and its time of day
Timestamp(iso, h, m) == [iso |-> iso, hour |-> h, minute |-> m]
T1648 == Timestamp(TRUE, 16, 48)
T1649 == Timestamp(TRUE, 16, 49)
T1000 == Timestamp(FALSE, 10, 0)

\* a message of a request body: the keys it carries and the values the route
\* reads (a value whose key is absent is never read)
JsMessage(keys, ts, sender, name, phone) ==
    [keys |-> keys, timestamp |-> ts, sender |-> sender, content |-> Str_Content,
     recipient_name |-> name, recipient_phone |-> phone]

PlainKeys == {"timestamp", "sender", "content"}
RecipientKeys == {"recipient_name", "recipient_phone"}

\* the two messages of the request body of README.md
ReadmeBot ==
    JsMessage(PlainKeys \cup RecipientKeys \cup {"session_id", "awb_number"},
              T1648, "Bot", Str_john, Str_phone62)
ReadmeCustomer ==
    JsMessage(PlainKeys \cup {"session_id"}, T1649, "Customer", Str_empty, Str_empty)

PlainBot == JsMessage(PlainKeys, T1648, "Bot", Str_empty, Str_empty)
PlainCustomer == JsMessage(PlainKeys, T1649, "Customer", Str_empty, Str_empty)
NamedBot == JsMessage(PlainKeys \cup RecipientKeys, T1648, "Bot", Str_john, Str_phone08)

\* the messages arrays of the model's request bodies
JsTranscripts ==
    { <<>>,
      <<PlainBot>>,
      <<NamedBot, PlainCustomer>>,
      <<ReadmeBot, ReadmeCustomer>>,
      <<JsMessage(PlainKeys, T1648, "Alice", Str_empty, Str_empty)>>,
      <<JsMessage(PlainKeys, T1000, "Bot", Str_empty, Str_empty)>>,
      <<JsMessage({"sender", "content"}, T1648, "Bot", Str_empty, Str_empty)>> }

\* an options object: the keys it carries and their values
JsRouteOptions(keys, width, headerDisplay, quality, format) ==
    [keys |-> keys, width |-> width, headerDisplay |-> headerDisplay,
     quality |-> quality, format |-> format]

\* optionsSchema: the value of each key when the body does not carry it
OptionDefaults == JsRouteOptions({}, 400, "phone", "high", "png")

\* the widths of the model's options objects
RouteWidths == {200, 300, 1200, 1300}

\* the options objects of the model's request bodies
RouteOptions ==
    { OptionDefaults }
    \cup { [OptionDefaults EXCEPT !.keys = {"width"}, !.width = w] : w \in RouteWidths }
    \cup { [OptionDefaults EXCEPT !.keys = {"headerDisplay"}, !.headerDisplay = h] :
             h \in {"name", "phone"} }
    \cup { [OptionDefaults EXCEPT !.keys = {"quality", "format"},
                                  !.quality = q, !.format = f] :
             q \in {"low", "medium"}, f \in {"jpeg", "gif"} }
    \cup { [OptionDefaults EXCEPT !.keys = {"height"}] }

\* req.body: whether it carries messages and options, and their values
Body(hasMessages, msgs, hasOptions, o) ==
    [hasMessages |-> hasMessages, messages |-> msgs,
     hasOptions |-> hasOptions, options |-> o]

Bodies ==
    { Body(FALSE, <<>>, FALSE, OptionDefaults) }
    \cup { Body(TRUE, t, FALSE, OptionDefaults) : t \in JsTranscripts }
    \cup { Body(TRUE, <<NamedBot, PlainCustomer>>, TRUE, o) : o \in RouteOptions }
    \cup { Body(TRUE, <<>>, TRUE, [OptionDefaults EXCEPT !.keys = {"width"}, !.width = 300]) }

NoBody == Body(FALSE, <<>>, FALSE, OptionDefaults)

\* messageSchema: Joi.object rejects a key the schema does not name
messageSchema(m) ==
    /\ m.keys \subseteq {"timestamp", "sender", "content", "recipient_name",
                         "recipient_phone"}
    /\ {"timestamp", "sender", "content"} \subseteq m.keys
    /\ m.timestamp.iso
    /\ m.sender \in {"Bot", "Customer"}

\* optionsSchema: a number outside min..max is an error
optionsSchema(o) ==
    /\ o.keys \subseteq {"width", "headerDisplay", "quality", "format"}
    /\ "width" \in o.keys => o.width >= 300 /\ o.width <= 1200
    /\ o.headerDisplay \in {"name", "phone"}
    /\ o.quality \in {"low", "medium", "high"}
    /\ o.format \in {"png", "jpeg", "webp"}

\* requestSchema
requestSchema(b) ==
    /\ b.hasMessages
    /\ Len(b.messages) >= 1
    /\ \A i \in 1..Len(b.messages) : messageSchema(b.messages[i])
    /\ b.hasOptions => optionsSchema(b.options)

\* the value schema.validate returns for a valid body: the defaults are filled in
ValidatedValue(b) ==
    IF b.hasOptions
    THEN [b EXCEPT !.options.keys = {"width", "headerDisplay", "quality", "format"}]
    ELSE b

\* new ApiError(statusCode, message) handed to next
ApiError(code, msg) == [status |-> code, message |-> msg, image |-> [format |-> "", bytes |-> 0],
                        width |-> 0, message_count |-> 0, generated_at |-> <<>>]

NoRouteResponse == ApiError(0, "")

\* res.status(200).json(response) of the controller, lines 27-45
JsonResponse(img, o, n, now) ==
    [status |-> 200, message |-> "success", image |-> img, width |-> o.width,
     message_count |-> n, generated_at |-> now]

RtPending == [state |-> "pending", image |-> [format |-> "", bytes |-> 0], logged |-> NoError]

\* the promise rejected after error was logged
RtRejected(error) ==
    [state |-> "rejected", image |-> [format |-> "", bytes |-> 0], logged |-> error]

\* resolve of the data URI of format f with n chunks received
RtResolved(f, n) ==
    [state |-> "resolved", image |-> [format |-> f, bytes |-> n], logged |-> NoError]

\* stream.on('error'), lines 99-102: the error is logged and the promise is
\* rejected with a new ApiError
StreamReject(err) == Thrown("ApiError", 500, "Failed to generate screenshot")

\* String.prototype.startsWith
StartsWith(s, p) == Len(p) <= Len(s) /\ SubSeq(s, 1, Len(p)) = p

Digits == {"0", "1", "2", "3", "4", "5", "6", "7", "8", "9"}

\* lines 134-145: the +62 prefix of the phone number
PhonePrefix(p) ==
    IF ~StartsWith(p, <<"+", "6", "2">>)
    THEN IF ~StartsWith(p, <<"6", "2">>)
         THEN <<"+", "6", "2", " ">> \o p
         ELSE <<"+", "6", "2", " ">> \o SubSeq(p, 3, Len(p))
    ELSE IF \A i \in 1..Len(p) : p[i] # " "
         THEN <<"+", "6", "2", " ">> \o SubSeq(p, 4, Len(p))
         ELSE p

\* line 147, replace(/(?=\d{4}(?:\d{4})*$)/g, '-'): a dash goes before every
\* position from which digits alone, a multiple of four of them, run to the end
RECURSIVE InsertDashes(_, _)
InsertDashes(s, i) ==
    IF i > Len(s)
    THEN <<>>
    ELSE (IF /\ (Len(s) - i + 1) % 4 = 0
             /\ \A k \in i..Len(s) : s[k] \in Digits
          THEN <<"-">> ELSE <<>>)
         \o <<s[i]>> \o InsertDashes(s, i + 1)

\* String.prototype.toUpperCase, on the letters the model uses
UpperRune(c) ==
    CASE c = "j" -> "J"
      [] c = "c" -> "C"
      [] OTHER -> c

\* toLocaleTimeString('id-ID', {hour: '2-digit', minute: '2-digit', hour12: true})
LocaleTime(h, m) ==
    [hour |-> IF h % 12 = 0 THEN 12 ELSE h % 12, minute |-> m, pm |-> h >= 12]

\* the same of new Date() with timeZone "Asia/Jakarta", seven hours east of the
\* zone the clock of the model counts in
LastSeen(now) == LocaleTime(((now \div 3600) + 7) % 24, (now \div 60) % 60)

\* new Date().toISOString() of the controller
ToISOString(now) == <<(now \div 3600) % 24, (now \div 60) % 60, now % 60>>

\* lines 159-182: the markup of one message
MessageHTML(msg) ==
    [content |-> convertWhatsAppToHTML(msg.content),
     class |-> IF msg.sender = "Bot" THEN "message sent" ELSE "message received",
     time |-> LocaleTime(msg.timestamp.hour, msg.timestamp.minute),
     status |-> msg.sender = "Bot"]

\* generateChatHTML(messages, {width, headerDisplay}) run at instant now: the
\* values that replace the placeholders of the template
generateChatHTML(messages, width, headerDisplay, now) ==
    LET named == messages # <<>> /\ "recipient_name" \in messages[1].keys
        phoned == messages # <<>> /\ "recipient_phone" \in messages[1].keys
        recipientName == IF named THEN messages[1].recipient_name ELSE Str_Customer
        recipientPhone == IF phoned THEN messages[1].recipient_phone ELSE Str_Unknown
    IN  [recipientName |-> UpperRune(recipientName[1]),
         headerLineText |-> IF headerDisplay = "name"
                            THEN recipientName
                            ELSE InsertDashes(PhonePrefix(recipientPhone), 1),
         lastSeen |-> LastSeen(now),
         messages |-> [i \in 1..Len(messages) |-> MessageHTML(messages[i])],
         width |-> width]

NoDocument == [recipientName |-> "", headerLineText |-> <<>>, lastSeen |-> <<>>,
               messages |-> <<>>, width |-> 0]

\* lines 79-86: the options handed to wkhtmltoimage.generate
WkScreenshotOptions(o) ==
    [width |-> o.width,
     format |-> IF o.format = "jpeg" THEN "jpg" ELSE o.format,
     quality |-> IF o.quality = "high" THEN 90 ELSE IF o.quality = "medium" THEN 70 ELSE 50]

\* one call of generateChatHTML: its arguments and the document it returned,
\* with the options the document is handed to wkhtmltoimage.generate with
Composition(messages, width, headerDisplay, html, wk) ==
    [composed |-> TRUE, messages |-> messages, width |-> width,
     headerDisplay |-> headerDisplay, html |-> html, screenshotOptions |-> wk]

NoComposition == [composed |-> FALSE, messages |-> <<>>, width |-> 0,
                  headerDisplay |-> "", html |-> NoDocument,
                  screenshotOptions |-> [width |-> 0, format |-> "", quality |-> 0]]

InitRoute ==
    /\ rpc = "new"
    /\ rtReq = NoBody
    /\ rtBody = NoBody
    /\ rtInvoked = {}
    /\ rtTemplate = FALSE
    /\ rtCur = NoComposition
    /\ rtPrev = NoComposition
    /\ rtChunks = 0
    /\ rtPromise = RtPending
    /\ rtResponse = NoRouteResponse
    /\ rtServed = 0

\* the constructor of ScreenshotService, lines 39-43: the template is loaded at
\* startup, or the load fails and is logged
RouteConstructor ==
    /\ rpc = "new"
    /\ hpc = "idle"
    /\ rtTemplate' \in BOOLEAN
    /\ rpc' = "idle"
    /\ UNCHANGED <<rtReq, rtBody, rtInvoked, rtCur, rtPrev, rtChunks, rtPromise,
                   rtResponse, rtServed, goVars, jsVars, hostVars, fmtVars, ccVars>>

\* faulty variant: after next(error) the middleware goes on to next()
validateScreenshotRequest_NoReturn(b) ==
    /\ rpc \in {"idle", "done"}
    /\ rtServed < MaxRequests
    /\ rtServed' = rtServed + 1
    /\ rtReq' = b
    /\ rtInvoked' = {}
    /\ rtChunks' = 0
    /\ rtPromise' = RtPending
    /\ rtPrev' = IF rtCur.composed THEN rtCur ELSE rtPrev
    /\ rtCur' = NoComposition
    /\ IF requestSchema(b)
       THEN /\ rtBody' = ValidatedValue(b)
            /\ rtResponse' = NoRouteResponse
            /\ rpc' = "generateScreenshot"
       ELSE /\ rtBody' = b
            /\ rtResponse' = ApiError(400, "Validation error")
            /\ rpc' = "generateScreenshot"
    /\ UNCHANGED <<rtTemplate, goVars, jsVars, hostVars, fmtVars, ccVars>>

\* validateRequest(requestSchema), for a request that arrives when the one
\* before has been answered
validateScreenshotRequest(b) ==
    /\ rpc \in {"idle", "done"}
    /\ rtServed < MaxRequests
    /\ rtServed' = rtServed + 1
    /\ rtReq' = b
    /\ rtInvoked' = {}
    /\ rtChunks' = 0
    /\ rtPromise' = RtPending
    /\ rtPrev' = IF rtCur.composed THEN rtCur ELSE rtPrev
    /\ rtCur' = NoComposition
    /\ IF requestSchema(b)
       THEN /\ rtBody' = ValidatedValue(b)
            /\ rtResponse' = NoRouteResponse
            /\ rpc' = "generateScreenshot"
       ELSE /\ rtBody' = b
            /\ rtResponse' = ApiError(400, "Validation error")
            /\ rpc' = "done"
    /\ UNCHANGED <<rtTemplate, goVars, jsVars, hostVars, fmtVars, ccVars>>

\* generateScreenshot, lines 11-20, and generateWhatsAppScreenshot up to its
\* first await
generateScreenshot ==
    /\ rpc = "generateScreenshot"
    /\ IF ~rtBody.hasMessages \/ Len(rtBody.messages) = 0
       THEN /\ rtInvoked' = rtInvoked \cup {"generateScreenshot"}
            /\ rtResponse' = ApiError(400, "At least one message is required")
            /\ rpc' = "done"
       ELSE /\ rtInvoked' = rtInvoked \cup {"generateScreenshot",
                                            "generateWhatsAppScreenshot"}
            /\ rtResponse' = rtResponse
            /\ rpc' = IF rtTemplate THEN "generateChatHTML" ELSE "loadTemplate"
    /\ UNCHANGED <<rtReq, rtBody, rtTemplate, rtCur, rtPrev, rtChunks, rtPromise,
                   rtServed, goVars, jsVars, hostVars, fmtVars, ccVars>>

\* await this.loadTemplate(): the file is read, or the read fails and the
\* catch block rejects the call
loadTemplate ==
    /\ rpc = "loadTemplate"
    /\ \E ok \in BOOLEAN :
        IF ok
        THEN /\ rtTemplate' = TRUE
             /\ rpc' = "generateChatHTML"
             /\ UNCHANGED <<rtPromise, rtResponse>>
        ELSE /\ rtTemplate' = FALSE
             /\ \E error \in LibraryErrors :
                 /\ rtPromise' = RtRejected(error)
                 /\ rtResponse' = ApiError(CatchBlock(error).status,
                                           CatchBlock(error).message)
             /\ rpc' = "done"
    /\ UNCHANGED <<rtReq, rtBody, rtInvoked, rtCur, rtPrev, rtChunks, rtServed,
                   goVars, jsVars, hostVars, fmtVars, ccVars>>

\* lines 76-90: the document is composed, reading the clock, and handed to
\* wkhtmltoimage.generate
ComposeAndGenerate ==
    /\ rpc = "generateChatHTML"
    /\ \E now \in Later(wallClock) :
        /\ wallClock' = now
        /\ rtCur' = Composition(rtBody.messages, rtBody.options.width,
                                rtBody.options.headerDisplay,
                                generateChatHTML(rtBody.messages, rtBody.options.width,
                                                 rtBody.options.headerDisplay, now),
                                WkScreenshotOptions(rtBody.options))
    /\ rtInvoked' = rtInvoked \cup {"generateChatHTML", "wkhtmltoimage.generate"}
    /\ rpc' = "stream"
    /\ UNCHANGED <<rtReq, rtBody, rtTemplate, rtPrev, rtChunks, rtPromise, rtResponse,
                   rtServed, goVars, jsVars, chatData, fmtVars, ccVars>>

\* stream.on('data')
StreamData ==
    /\ rpc = "stream"
    /\ rtChunks < MaxChunks
    /\ rtChunks' = rtChunks + 1
    /\ UNCHANGED <<rpc, rtReq, rtBody, rtInvoked, rtTemplate, rtCur, rtPrev, rtPromise,
                   rtResponse, rtServed, goVars, jsVars, hostVars, fmtVars, ccVars>>

\* stream.on('end'): the promise resolves with the data URI of the chunks
\* received, and the controller answers 200
StreamEnd ==
    /\ rpc = "stream"
    /\ rtPromise' = RtResolved(rtBody.options.format, rtChunks)
    /\ \E now \in Later(wallClock) :
        /\ wallClock' = now
        /\ rtResponse' = JsonResponse(RtResolved(rtBody.options.format, rtChunks).image,
                                      rtBody.options, Len(rtBody.messages),
                                      ToISOString(now))
    /\ rpc' = "done"
    /\ UNCHANGED <<rtReq, rtBody, rtInvoked, rtTemplate, rtCur, rtPrev, rtChunks,
                   rtServed, goVars, jsVars, chatData, fmtVars, ccVars>>

\* stream.on('error'): the promise rejects and the controller hands the error
\* to next
StreamError ==
    /\ rpc = "stream"
    /\ \E err \in LibraryErrors :
        /\ rtPromise' = RtRejected(err)
        /\ rtResponse' = ApiError(StreamReject(err).status, StreamReject(err).message)
    /\ rpc' = "done"
    /\ UNCHANGED <<rtReq, rtBody, rtInvoked, rtTemplate, rtCur, rtPrev, rtChunks,
                   rtServed, goVars, jsVars, hostVars, fmtVars, ccVars>>

\* a request arrives at POST /api/whatsapp-screenshot
RoutePost == rpc \in {"idle", "done"} /\ \E b \in Bodies : validateScreenshotRequest(b)

-----------------------------------------------------------------------------
(* Specifications *)

-----------------------------------------------------------------------------
(* The puppeteer-backed ScreenshotService under concurrent calls.  The code
   between two awaits runs without interruption; every await is a point where
   the other processes may run. *)

\* concurrent calls of generateWhatsAppScreenshot
MaxCallers == 2

\* the processes: the callers, the constructor and the shutdown
Callers == 1..MaxCallers
Constructor == 0
Shutdown == -1
Procs == {Constructor, Shutdown} \cup Callers

\* this.browser && this.browser.isConnected()
Connected == thisBrowser \in running

\* the constructor has called initializeBrowser, which found no template and
\* awaits fs.readFile
InitConc ==
    /\ cpc = [p \in Procs |-> IF p = Constructor THEN "readFile" ELSE "idle"]
    /\ thisBrowser = 0
    /\ thisTemplate = FALSE
    /\ mine = [p \in Procs |-> 0]
    /\ nLaunched = 0
    /\ running = {}

\* where p goes on when initializeBrowser returned to it
AfterInit(p) == IF p = Constructor THEN "done" ELSE "newPage"

\* initializeBrowser lines 281-300, entered by p with the template loaded:
\* return if the browser is connected, else call puppeteer.launch and await it
EnsureBrowser(p) ==
    IF Connected
    THEN /\ cpc' = [cpc EXCEPT ![p] = AfterInit(p)]
         /\ UNCHANGED <<mine, nLaunched>>
    ELSE /\ cpc' = [cpc EXCEPT ![p] = "launching"]
         /\ nLaunched' = nLaunched + 1
         /\ mine' = [mine EXCEPT ![p] = nLaunched + 1]

\* fs.readFile of initializeBrowser resolves
InitReadFileOk ==
    /\ cpc[Constructor] = "readFile"
    /\ thisTemplate' = TRUE
    /\ EnsureBrowser(Constructor)
    /\ UNCHANGED <<thisBrowser, running, goVars, jsVars, hostVars, rtVars, fmtVars>>

\* fs.readFile of initializeBrowser rejects: the error is rethrown and logged
\* by the catch of the constructor
InitReadFileFail ==
    /\ cpc[Constructor] = "readFile"
    /\ cpc' = [cpc EXCEPT ![Constructor] = "done"]
    /\ UNCHANGED <<thisBrowser, thisTemplate, mine, nLaunched, running, goVars, jsVars,
                   hostVars, rtVars, fmtVars>>

\* puppeteer.launch resolves: this.browser is assigned
LaunchOk ==
    \E p \in Procs :
        /\ cpc[p] = "launching"
        /\ thisBrowser' = mine[p]
        /\ running' = running \cup {mine[p]}
        /\ mine' = [mine EXCEPT ![p] = 0]
        /\ cpc' = [cpc EXCEPT ![p] = AfterInit(p)]
        /\ UNCHANGED <<thisTemplate, nLaunched, goVars, jsVars, hostVars, rtVars,
                       fmtVars>>

\* puppeteer.launch rejects: this.browser is set to null and the error rethrown
LaunchFail ==
    \E p \in Procs :
        /\ cpc[p] = "launching"
        /\ thisBrowser' = 0
        /\ mine' = [mine EXCEPT ![p] = 0]
        /\ cpc' = [cpc EXCEPT ![p] = "done"]
        /\ UNCHANGED <<thisTemplate, nLaunched, running, goVars, jsVars, hostVars,
                       rtVars, fmtVars>>

\* generateWhatsAppScreenshot is called and awaits generateChatHTML
GenerateStart ==
    \E c \in Callers :
        /\ cpc[c] = "idle"
        /\ cpc' = [cpc EXCEPT ![c] = "html"]
        /\ UNCHANGED <<thisBrowser, thisTemplate, mine, nLaunched, running, goVars,
                       jsVars, hostVars, rtVars, fmtVars>>

\* generateChatHTML, which loads the template if it is missing, resolves; the
\* caller goes on to lines 323-328
GenerateHtmlOk ==
    \E c \in Callers :
        /\ cpc[c] = "html"
        /\ thisTemplate' = TRUE
        /\ EnsureBrowser(c)
        /\ UNCHANGED <<thisBrowser, running, goVars, jsVars, hostVars, rtVars, fmtVars>>

\* generateChatHTML rejects
GenerateHtmlFail ==
    \E c \in Callers :
        /\ cpc[c] = "html"
        /\ cpc' = [cpc EXCEPT ![c] = "done"]
        /\ UNCHANGED <<thisBrowser, thisTemplate, mine, nLaunched, running, goVars,
                       jsVars, hostVars, rtVars, fmtVars>>

\* this.browser.newPage() and the rest of the call
GenerateNewPage ==
    \E c \in Callers :
        /\ cpc[c] = "newPage"
        /\ cpc' = [cpc EXCEPT ![c] = "done"]
        /\ UNCHANGED <<thisBrowser, thisTemplate, mine, nLaunched, running, goVars,
                       jsVars, hostVars, rtVars, fmtVars>>

\* a connected browser loses its connection
BrowserDisconnects ==
    \E b \in running :
        /\ running' = running \ {b}
        /\ UNCHANGED <<cpc, thisBrowser, thisTemplate, mine, nLaunched, goVars, jsVars,
                       hostVars, rtVars, fmtVars>>

\* closeBrowser at shutdown: a connected browser is closed
CloseBrowserStart ==
    /\ cpc[Shutdown] = "idle"
    /\ IF Connected
       THEN /\ running' = running \ {thisBrowser}
            /\ cpc' = [cpc EXCEPT ![Shutdown] = "closing"]
       ELSE /\ cpc' = [cpc EXCEPT ![Shutdown] = "done"]
            /\ UNCHANGED running
    /\ UNCHANGED <<thisBrowser, thisTemplate, mine, nLaunched, goVars, jsVars, hostVars,
                   rtVars, fmtVars>>

\* browser.close() resolved: this.browser is set to null
CloseBrowserEnd ==
    /\ cpc[Shutdown] = "closing"
    /\ thisBrowser' = 0
    /\ cpc' = [cpc EXCEPT ![Shutdown] = "done"]
    /\ UNCHANGED <<thisTemplate, mine, nLaunched, running, goVars, jsVars, hostVars,
                   rtVars, fmtVars>>

-----------------------------------------------------------------------------
(* The markup transforms and messageClass, called on their own *)

\* the longest message body the model enumerates
MaxLen == 5

\* the longest message body with structural characters the model enumerates
MaxEscLen == 3

\* the runes of the enumerated bodies: a letter, white space, the delimiters
FormatRunes == {"a", " ", "\n", "*", "_"}
EscapeRunes == {"a", "*", "&", "<", ">", "\"", "'"}

\* every text of at most n runes of a set
TextsOver(runes, n) == UNION { [1..k -> runes] : k \in 0..n }

\* bodies of TestFormatContentHTML and of the usage examples of whatsapp-html
Text_FileName == <<"f", "i", "l", "e", "_", "n", "a", "m", "e", "_", "h", "e", "r", "e">>
Text_Hello == <<"_", "h", "e", "l", "l", "o", "_">>
Text_TwoBold == <<"*", "a", "*", " ", "*", "b", "*">>
Text_Mono == <<Grave, Grave, Grave, "a", "\n", "b", Grave, Grave, Grave>>
Text_Strike == <<"~", "a", " ", "b", "~">>
Text_Script == <<"<", "s", "c", "r", "i", "p", "t", ">", "a", "l", "e", "r", "t", "(",
                 "'", "x", "s", "s", "'", ")", "<", "/", "s", "c", "r", "i", "p", "t",
                 ">">>
Text_Mixed == <<"H", "i", " ", "*", "w", "*", " ", "_", "t", "_", " ", "~", "x", "~", " ",
                Grave, Grave, Grave, "c", Grave, Grave, Grave, "\n", "<", "t", ">">>

SampleTexts == {Text_FileName, Text_Hello, Text_TwoBold, Text_Mono, Text_Strike,
                Text_Script, Text_Mixed, Str_Content}

Texts == TextsOver(FormatRunes, MaxLen) \cup TextsOver(EscapeRunes, MaxEscLen)
             \cup SampleTexts

\* the value of a result before the call
NotCalled == <<"not called">>

\* the senders of the messages the handler is given
Senders == {<<>>, Str_Bot, <<"b", "o", "t">>, <<"B", "O", "T">>, Str_user,
            <<"U", "s", "e", "r">>, <<"U", "S", "E", "R">>, Str_Alice,
            <<"r", "o", "b", "o", "t">>}

\* the sender where no request is followed
NoSender == <<"no sender">>

\* the Message before the handler has built it
NotBuilt == Message("", <<"not built">>, "", "")

\* the calls
CallFormatContentHTML ==
    /\ goHTML = NotCalled
    /\ goHTML' = formatContentHTML(content)
    /\ UNCHANGED <<goVars, jsVars, hostVars, rtVars, ccVars, content, msgSender,
                   jsHTML, advHTML, tmsg, class>>

CallConvertWhatsAppToHTML ==
    /\ jsHTML = NotCalled
    /\ jsHTML' = convertWhatsAppToHTML(content)
    /\ UNCHANGED <<goVars, jsVars, hostVars, rtVars, ccVars, content, msgSender,
                   goHTML, advHTML, tmsg, class>>

CallConvertWhatsAppToHTMLAdvanced ==
    /\ advHTML = NotCalled
    /\ advHTML' = convertWhatsAppToHTMLAdvanced(content)
    /\ UNCHANGED <<goVars, jsVars, hostVars, rtVars, ccVars, content, msgSender,
                   goHTML, jsHTML, tmsg, class>>

\* the handler builds the message of a request and ProcessChatData processes it
HandlerRawMessage ==
    /\ tmsg = NotBuilt
    /\ tmsg' = LET m == ProcessChatData(
                            [NoChatData EXCEPT !.Messages =
                                <<RawMessage(RequestMessage(msgSender, "10:00"), 1, 0)>>]
                        ).Messages[1]
               IN  Message(m.Type, m.Author, "", "")
    /\ UNCHANGED <<goVars, jsVars, hostVars, rtVars, ccVars, content, msgSender,
                   goHTML, jsHTML, advHTML, class>>

CallMessageClass ==
    /\ tmsg # NotBuilt
    /\ class = NotCalled
    /\ class' = messageClass(tmsg)
    /\ UNCHANGED <<goVars, jsVars, hostVars, rtVars, ccVars, content, msgSender,
                   goHTML, jsHTML, advHTML, tmsg>>

NoRequest == Request("", FALSE, FALSE, <<>>, FALSE, NoOptionsJSON, Str_empty)

InitGo ==
    /\ hpc = "idle"
    /\ req = NoRequest
    /\ response = NoResponse
    /\ pc = "idle"
    /\ input = NoOptions
    /\ options = NoOptions
    /\ currentTimeout = DurZero
    /\ tasks = <<>>
    /\ issued = <<>>
    /\ finalFormat = Str_empty
    /\ buf = NoBuf
    /\ elapsed = 0
    /\ lstart = -1
    /\ runErr = "nil"
    /\ result = "none"
    /\ allocOpen = FALSE
    /\ browserOpen = FALSE
    /\ allocReleases = 0
    /\ browserReleases = 0
    /\ chatData = NoChatData
    /\ wallClock = 0

\* no markup transform and no template function has been called
InitMarkup ==
    /\ content = <<>>
    /\ goHTML = NotCalled
    /\ jsHTML = NotCalled
    /\ advHTML = NotCalled
    /\ msgSender = NoSender
    /\ tmsg = TextMessage
    /\ class = NotCalled

Init == InitGo /\ InitJs /\ InitRoute /\ InitMarkup /\ InitConc

\* a request arrives at POST /screenshot
HandleRequest == hpc = "idle" /\ rpc = "new" /\ \E r \in Requests : ScreenshotHandlerBegin(r)

\* the service is called directly
CallService == hpc = "idle" /\ rpc = "new" /\ \E o \in ScreenshotOptions : DirectCall(o)

Next ==
    \/ HandleRequest
    \/ CallService
    \/ Issue
    \/ Tick
    \/ OpComplete
    \/ OpFail
    \/ OpHang
    \/ OpDeadline
    \/ Return
    \/ ScreenshotHandlerRespond
    \/ RouteConstructor
    \/ RoutePost
    \/ generateScreenshot
    \/ loadTemplate
    \/ ComposeAndGenerate
    \/ StreamData
    \/ StreamEnd
    \/ StreamError

Spec == Init /\ [][Next]_vars

\* time passes, a context whose deadline passed ends the operation that waits
\* on it, and a call whose chromedp.Run returned goes on to return
FairSpec == Spec /\ WF_vars(Tick) /\ WF_vars(OpDeadline) /\ WF_vars(Return)

\* the puppeteer-backed service alone
SpecPup == Init /\ [][NextPup]_vars

\* a process requires one of the two modules that export a ScreenshotService,
\* which constructs the instance
RequirePuppeteerService == rpc = "new" /\ JsConstructor
RequireWkhtmltoimageService == jpc = "new" /\ RouteConstructor

NextJs ==
    \/ RequirePuppeteerService
    \/ JsBrowserDisconnect
    \/ JsGenerate
    \/ JsEnsureBrowser
    \/ JsNewPage
    \/ JsOpOk
    \/ JsOpNull
    \/ JsOpThrow
    \/ RequireWkhtmltoimageService
    \/ RoutePost
    \/ generateScreenshot
    \/ loadTemplate
    \/ ComposeAndGenerate
    \/ StreamData
    \/ StreamEnd
    \/ StreamError

\* the two JS services, one of them in a run
SpecJs == Init /\ [][NextJs]_vars

\* the step of ComposeAndGenerate, seen at the position of the call
Composed == rpc = "generateChatHTML" /\ rpc' = "stream"

\* the event loop runs every continuation that is ready: a request that passed
\* validation reaches the service, the read of the template settles, and the
\* document is composed and handed to the renderer.  The events of the stream
\* are the renderer's; nothing makes it emit one.
FairSpecJs ==
    /\ SpecJs
    /\ WF_vars(generateScreenshot)
    /\ WF_vars(loadTemplate)
    /\ WF_rpc(Composed)

\* the markup transforms and messageClass alone, each called on a message
\* body or a message of the model
InitFmt ==
    /\ InitGo /\ InitJs /\ InitRoute /\ InitConc
    /\ goHTML = NotCalled
    /\ jsHTML = NotCalled
    /\ advHTML = NotCalled
    /\ class = NotCalled
    /\ \/ content \in Texts /\ msgSender = NoSender /\ tmsg = TextMessage
       \/ content = <<>> /\ msgSender = NoSender /\ tmsg \in Messages
       \/ content = <<>> /\ msgSender \in Senders /\ tmsg = NotBuilt

NextFmt ==
    \/ HandlerRawMessage
    \/ CallFormatContentHTML
    \/ CallConvertWhatsAppToHTML
    \/ CallConvertWhatsAppToHTMLAdvanced
    \/ CallMessageClass

SpecFmt == InitFmt /\ [][NextFmt]_vars

\* the puppeteer-backed service with its constructor, concurrent callers and
\* the shutdown
NextConc ==
    \/ InitReadFileOk
    \/ InitReadFileFail
    \/ LaunchOk
    \/ LaunchFail
    \/ GenerateStart
    \/ GenerateHtmlOk
    \/ GenerateHtmlFail
    \/ GenerateNewPage
    \/ BrowserDisconnects
    \/ CloseBrowserStart
    \/ CloseBrowserEnd

SpecConc == Init /\ [][NextConc]_vars


-----------------------------------------------------------------------------
(* Properties *)

Called == pc # "idle"
Running == pc \in {"run", "inflight", "hung", "ran"}
IssuedOps == {issued[i].op : i \in 1..Len(issued)}
IsJpeg(f) == ToLower(f) = Str_jpeg
InRange(q) == q >= 1 /\ q <= 100

\* C1: the exec allocator and the browser context opened by a call of
\* TakeScreenshotFromHTML are open while the call runs and have each been
\* released exactly once when it has returned, whatever it returned.
C1_ReleasedExactlyOnce ==
    /\ Running => allocOpen /\ browserOpen /\ allocReleases = 0 /\ browserReleases = 0
    /\ pc = "returned" => /\ ~allocOpen /\ ~browserOpen
                          /\ allocReleases = 1 /\ browserReleases = 1
                          /\ result \in {"ok", "timed out", "failed", "empty buffer"}

C1_Witness ==
    /\ pc = "returned"
    /\ result = "empty buffer"
    /\ allocReleases = 1 /\ browserReleases = 1

\* C2: when generateWhatsAppScreenshot (puppeteer) has resolved or rejected,
\* the page it opened with browser.newPage() is closed.
C2_PageClosedWhenSettled == jsOutcome.state # "pending" => ~pageOpen

\* C3: a call in which the renderer never answers an operation ends with the
\* timeout error and with the session released exactly once.
C3_HungCallTimesOut ==
    (pc = "hung") ~> (/\ pc = "returned"
                      /\ result = "timed out"
                      /\ allocReleases = 1 /\ browserReleases = 1
                      /\ ~allocOpen /\ ~browserOpen)

C3_Witness ==
    /\ pc = "returned"
    /\ result = "timed out"
    /\ issued[Len(issued)].op = "WaitVisible"
    /\ Expired(elapsed, currentTimeout)
    /\ browserReleases = 1

\* C4: the timeout error is returned if and only if the deadline of the call,
\* the duration named in the error, has elapsed.
C4_SingleDeadline ==
    pc = "returned" => (result = "timed out" <=> Expired(elapsed, currentTimeout))

\* C5: with IsFullPage set the capture step is the full-page capture, never the
\* element wait or capture nor the viewport capture, with or without a selector.
C5_FullPagePrecedence ==
    (Called /\ input.IsFullPage) =>
        /\ IssuedOps \cap {"WaitVisible", "LogVisible", "Screenshot", "CaptureScreenshot"} = {}
        /\ (pc \in {"ran", "returned"} /\ runErr = "nil") =>
               issued[Len(issued)].op = "FullScreenshot"

C5_Witness ==
    /\ input.IsFullPage
    /\ input.Selector # ""
    /\ result = "ok"
    /\ issued[Len(issued)].op = "FullScreenshot"

\* C6: in Viewport and in Element mode the actual format is png, whatever
\* format and quality were requested.
C6_ViewportElementPng ==
    (Called /\ ~input.IsFullPage) =>
        /\ finalFormat = Str_png
        /\ buf.len > 0 => buf.format = Str_png

C6_Witness ==
    /\ ~input.IsFullPage
    /\ IsJpeg(input.Format)
    /\ result = "ok"
    /\ buf.format = Str_png
    /\ "Screenshot" \in IssuedOps

\* the FullScreenshot task of the task list
FullTask == tasks[Len(tasks)]

MimeFormat(ct) ==
    IF ct = "image/jpeg" THEN Str_jpeg ELSE IF ct = "image/png" THEN Str_png ELSE Str_empty

\* C8: the Content-Type and the file name extension of a successful response
\* name the actual format of the bytes returned.
C8_ReportedFormatIsActual ==
    response.status = 200 =>
        /\ MimeFormat(response.contentType) = buf.format
        /\ HasSuffix(ToLower(response.filename), <<".">> \o buf.format)

\* the options of the request as decoded, before the handler's defaults
Raw == req.ScreenshotOptions

\* C9, as stated: unset fields resolve to 1280, 720, png and 30 s, and every
\* field supplied with a non-zero value is used unchanged.
C9_NonZeroUnchanged ==
    Called =>
        /\ input.Width = 0 => options.Width = 1280
        /\ input.Height = 0 => options.Height = 720
        /\ input.Format = Str_empty => options.Format = Str_png
        /\ IsZeroDur(input.Timeout) => currentTimeout = Dur(30, 0)
        /\ input.Width # 0 => options.Width = input.Width
        /\ input.Height # 0 => options.Height = input.Height
        /\ input.Format # Str_empty => options.Format = input.Format
        /\ ~IsZeroDur(input.Timeout) => currentTimeout = input.Timeout
        /\ input.Selector # "" => options.Selector = input.Selector
        /\ input.Quality # 0 => options.Quality = input.Quality

\* C9, amended: unset fields resolve to 1280, 720, png and 30 s before any
\* renderer operation is issued; a width, height, format, selector or timeout
\* supplied to TakeScreenshotFromHTML with a non-zero value is used unchanged,
\* and so is a quality unless the format is jpeg and the quality lies outside
\* 1..100, which resolves to 90.  Through ScreenshotHandler a positive width,
\* height or timeout and a non-empty selector are used unchanged, a non-empty
\* format is lower-cased, and a negative width resolves to the default.
C9_Defaulting ==
    Called =>
        /\ options.Width = IF input.Width = 0 THEN 1280 ELSE input.Width
        /\ options.Height = IF input.Height = 0 THEN 720 ELSE input.Height
        /\ options.Format = IF input.Format = Str_empty THEN Str_png ELSE input.Format
        /\ currentTimeout = IF IsZeroDur(input.Timeout) THEN Dur(30, 0) ELSE input.Timeout
        /\ options.Selector = input.Selector
        /\ options.IsFullPage = input.IsFullPage
        /\ options.Quality = IF IsJpeg(options.Format) /\ ~InRange(input.Quality)
                             THEN 90 ELSE input.Quality
        /\ \A i \in 1..Len(issued) :
              issued[i].op = "EmulateViewport" =>
                  issued[i].w = options.Width /\ issued[i].h = options.Height
        /\ hpc = "screenshot" =>
              /\ options.Width = IF req.HasOptions /\ Raw.Width > 0 THEN Raw.Width ELSE 1280
              /\ options.Height = IF req.HasOptions /\ Raw.Height > 0 THEN Raw.Height ELSE 720
              /\ options.Format = IF req.HasOptions /\ Raw.Format # Str_empty
                                  THEN ToLower(Raw.Format) ELSE Str_png
              /\ currentTimeout = IF req.HasOptions /\ IsPositiveDur(Raw.Timeout)
                                  THEN Raw.Timeout ELSE Dur(30, 0)
              /\ options.Selector = IF req.HasOptions /\ Raw.Selector # ""
                                    THEN Raw.Selector ELSE ".chat-container"

C9_Witness ==
    /\ hpc = "direct"
    /\ input = NoOptions
    /\ options.Width = 1280 /\ options.Height = 720 /\ options.Format = Str_png
    /\ currentTimeout = Dur(30, 0)
    /\ "EmulateViewport" \in IssuedOps

ElementOps == {"WaitVisible", "LogVisible", "Screenshot"}

\* C11: no operation of the element capture is issued with an empty selector;
\* a request to the handler that is not full-page captures the element of its
\* own selector when it supplies one and of .chat-container when it supplies
\* none, and never the viewport.
C11_SelectorDefault ==
    /\ \A i \in 1..Len(issued) : issued[i].op \in ElementOps => issued[i].sel # ""
    /\ (hpc = "screenshot" /\ ~options.IsFullPage) =>
          /\ options.Selector = IF req.HasOptions /\ Raw.Selector # ""
                                THEN Raw.Selector ELSE ".chat-container"
          /\ tasks[Len(tasks)] = Task("Screenshot", options.Selector, 0, 0, 0)
          /\ "CaptureScreenshot" \notin IssuedOps
    /\ (Called /\ ~input.IsFullPage /\ input.Selector # "") =>
          tasks[Len(tasks)] = Task("Screenshot", input.Selector, 0, 0, 0)

C11_Witness ==
    /\ hpc = "screenshot"
    /\ req.HasOptions /\ Raw.Selector = "" /\ ~Raw.IsFullPage
    /\ result = "ok"
    /\ issued[Len(issued)] = Task("Screenshot", ".chat-container", 0, 0, 0)

\* the wait for the element of the selector was ended by a deadline: the
\* element never became visible
NeverVisible ==
    /\ pc = "returned"
    /\ issued[Len(issued)].op = "WaitVisible"
    /\ runErr = "context deadline exceeded"

\* C12: a call in Element mode whose selector never becomes visible ends with
\* a not-found error, which is neither the timeout error nor the error of
\* another failure, and never with a success or an empty result.
C12_NeverVisibleIsNotFound ==
    NeverVisible => result \notin {"timed out", "failed", "ok", "empty buffer"}

\* C13: no capture path returns an empty payload as a success: a run of
\* TakeScreenshotFromHTML that ends without error and without bytes returns an
\* error, and generateWhatsAppScreenshot never resolves, nor does the route
\* answer 200, with an image of no bytes.
C13_NoEmptySuccess ==
    /\ (pc = "returned" /\ runErr = "nil" /\ buf.len = 0) => result = "empty buffer"
    /\ result = "ok" => buf.len > 0
    /\ rtPromise.state = "resolved" => rtPromise.image.bytes > 0
    /\ rtResponse.status = 200 => rtResponse.image.bytes > 0

\* C14: a request that fails validation reaches neither document composition
\* nor a renderer: when ScreenshotHandler has answered 405 or 400 no ChatData
\* was built for GenerateHTML and TakeScreenshotFromHTML was not called, and
\* when validateScreenshotRequest has handed a 400 ApiError to next neither the
\* controller nor the screenshot service was entered.
C14_ValidationStopsRequest ==
    /\ response.status \in {405, 400} =>
          /\ chatData = NoChatData
          /\ pc = "idle" /\ issued = <<>>
          /\ ~allocOpen /\ ~browserOpen /\ allocReleases = 0 /\ browserReleases = 0
    /\ (rtServed > 0 /\ ~requestSchema(rtReq)) =>
          /\ rtResponse = ApiError(400, "Validation error")
          /\ rpc = "done"
          /\ rtInvoked = {}
          /\ ~rtCur.composed /\ rtChunks = 0 /\ rtPromise = RtPending

C14_Witness ==
    /\ rtServed = 2
    /\ rtPrev.composed
    /\ rtReq.hasMessages /\ rtReq.messages # <<>> /\ ~messageSchema(rtReq.messages[1])
    /\ rtResponse.status = 400
    /\ rtInvoked = {}

\* C15: a transcript with zero messages is not an error: ScreenshotHandler
\* builds the header-only ChatData and calls the service, and the Express
\* route does not answer such a body with an error of the request.
C15_ZeroMessagesAccepted ==
    /\ (hpc # "idle" /\ req.Method = "POST" /\ req.BodyOK /\ req.Messages = <<>>) =>
          /\ chatData # NoChatData /\ chatData.Messages = <<>>
          /\ response.status \notin {400, 405}
          /\ req.TemplateOK => pc # "idle"
    /\ (/\ rtServed > 0
        /\ rtReq.hasMessages /\ rtReq.messages = <<>>
        /\ rtReq.hasOptions => optionsSchema(rtReq.options)) =>
          rtResponse.status # 400

\* the body is valid but for the width of its options
ValidButWidth(b) ==
    /\ requestSchema([b EXCEPT !.hasOptions = FALSE])
    /\ b.hasOptions /\ "width" \in b.options.keys
    /\ optionsSchema([b.options EXCEPT !.width = 400])

\* C16: every requested width and height is clamped silently: no width of a
\* request makes ScreenshotHandler or the Express route answer with an error
\* of the request, the width and height ScreenshotHandler uses for the
\* document and the viewport are positive, and the width the route uses for
\* the document and for wkhtmltoimage lies within 300..1200.
C16_SizeClamped ==
    /\ (hpc # "idle" /\ req.Method = "POST" /\ req.BodyOK) =>
          /\ response.status # 400
          /\ chatData.Width > 0
          /\ Called => /\ options.Width = chatData.Width /\ options.Height > 0
                       /\ \A i \in 1..Len(issued) :
                             issued[i].op = "EmulateViewport" =>
                                 issued[i].w = chatData.Width /\ issued[i].h > 0
    /\ (rtServed > 0 /\ ValidButWidth(rtReq)) =>
          /\ rtResponse.status # 400
          /\ rtCur.composed =>
                /\ rtCur.html.width >= 300 /\ rtCur.html.width <= 1200
                /\ rtCur.screenshotOptions.width = rtCur.html.width

\* C17: a timeout N given in the screenshotOptions of a request is a number of
\* seconds: the deadline of the capture is N seconds.
C17_TimeoutInSeconds ==
    (hpc = "screenshot" /\ req.HasOptions /\ req.OptionsJSON.Timeout > 0) =>
        currentTimeout = Dur(req.OptionsJSON.Timeout, 0)

\* C18: every error response of the Go /screenshot endpoint, 405, 400 or 500,
\* has Content-Type application/json and a JSON object with an error field
\* as its body.
C18_ErrorsAreJson ==
    response.status \in {405, 400, 500} =>
        /\ response.contentType \in {"application/json",
                                     "application/json; charset=utf-8"}
        /\ response.body.kind = "json"

\* the body is shaped as README.md documents it: every message carries
\* session_id, timestamp, sender and content, and may carry awb_number,
\* recipient_name and recipient_phone
ReadmeShaped(b) ==
    /\ b.hasMessages /\ b.messages # <<>>
    /\ \A i \in 1..Len(b.messages) :
          /\ PlainKeys \cup {"session_id"} \subseteq b.messages[i].keys
          /\ b.messages[i].keys \subseteq
                PlainKeys \cup RecipientKeys \cup {"session_id", "awb_number"}
          /\ b.messages[i].timestamp.iso
          /\ b.messages[i].sender \in {"Bot", "Customer"}
    /\ b.hasOptions => optionsSchema(b.options)

\* C19: a request shaped as the README documents it passes
\* validateScreenshotRequest and reaches the controller.
C19_ReadmeRequestPasses ==
    (rtServed > 0 /\ ReadmeShaped(rtReq)) =>
        /\ rtResponse # ApiError(400, "Validation error")
        /\ rpc = "done" => "generateScreenshot" \in rtInvoked

\* C20: composing twice from an identical transcript and identical options
\* yields identical documents.
C20_CompositionDeterministic ==
    (/\ rtCur.composed /\ rtPrev.composed
     /\ rtCur.messages = rtPrev.messages
     /\ rtCur.width = rtPrev.width
     /\ rtCur.headerDisplay = rtPrev.headerDisplay) =>
        rtCur.html = rtPrev.html

\* sub occurs in s
Contains(s, sub) ==
    \E i \in 1..(Len(s) - Len(sub) + 1) : SubSeq(s, i, i + Len(sub) - 1) = sub

\* every delimiter d of s has a word rune on either side
WordFlanked(s, d) ==
    \A i \in 1..Len(s) :
        s[i] = d => i > 1 /\ i < Len(s) /\ IsWord(s[i - 1]) /\ IsWord(s[i + 1])

\* what a transform makes of a body whose delimiters are flanked by word
\* runes, and of "_hello_" and "*a*"
BoundaryRule(html) ==
    /\ WordFlanked(content, "_") => ~Contains(html, OpenTag(Tag_em))
    /\ WordFlanked(content, "*") => ~Contains(html, OpenTag(Tag_strong))
    /\ content = Text_Hello =>
           html = OpenTag(Tag_em) \o <<"h", "e", "l", "l", "o">> \o CloseTag(Tag_em)
    /\ content = <<"*", "a", "*">> =>
           html = OpenTag(Tag_strong) \o <<"a">> \o CloseTag(Tag_strong)

\* C21: in the output of the transforms the compositions call, formatContentHTML
\* and convertWhatsAppToHTML, an underscore or an asterisk with word runes on
\* both sides opens and closes no span, while "_hello_" becomes <em>hello</em>
\* and "*a*" becomes <strong>a</strong>.
C21_MarkupBoundaryRule ==
    /\ goHTML # NotCalled => BoundaryRule(goHTML)
    /\ jsHTML # NotCalled => BoundaryRule(jsHTML)

StructuralRunes == {"&", "<", ">", "\"", "'"}
IsStructural(c) == c \in StructuralRunes

Entity(c) ==
    CASE c = "&" -> Ent_amp
      [] c = "<" -> Ent_lt
      [] c = ">" -> Ent_gt
      [] c = "\"" -> Ent_quot
      [] c = "'" -> Ent_39

\* the tags the transforms insert
InsertedTags ==
    {OpenTag(t) : t \in {Tag_strong, Tag_em, Tag_code, Tag_del, Tag_br}}
        \cup {CloseTag(t) : t \in {Tag_strong, Tag_em, Tag_code, Tag_del}}

\* the structural characters a reader of html meets, in order: the character of
\* every entity, and "raw" for every structural rune that neither belongs to an
\* entity nor to an inserted tag
RECURSIVE Structure(_)
Structure(html) ==
    IF html = <<>> THEN <<>>
    ELSE IF \E t \in InsertedTags : StartsWith(html, t)
    THEN LET t == CHOOSE u \in InsertedTags : StartsWith(html, u)
         IN  Structure(SubSeq(html, Len(t) + 1, Len(html)))
    ELSE IF \E c \in StructuralRunes : StartsWith(html, Entity(c))
    THEN LET c == CHOOSE e \in StructuralRunes : StartsWith(html, Entity(e))
         IN  <<c>> \o Structure(SubSeq(html, Len(Entity(c)) + 1, Len(html)))
    ELSE IF IsStructural(Head(html)) THEN <<"raw">> \o Structure(Tail(html))
    ELSE Structure(Tail(html))

\* C22: in the output of formatContentHTML and of convertWhatsAppToHTML every
\* &, <, >, " and ' of the body appears as its entity and only so: apart from
\* the inserted <strong>, <em>, <del>, <code> and <br> tags the output holds no
\* structural character outside an entity.
C22_EscapedBeforeFormatting ==
    /\ goHTML # NotCalled => Structure(goHTML) = SelectSeq(content, IsStructural)
    /\ jsHTML # NotCalled => Structure(jsHTML) = SelectSeq(content, IsStructural)

\* both transforms have formatted a body that holds a structural character
C22_Witness ==
    /\ goHTML # NotCalled /\ jsHTML # NotCalled
    /\ SelectSeq(content, IsStructural) # <<>>
    /\ Contains(goHTML, OpenTag(Tag_strong))
    /\ Contains(jsHTML, OpenTag(Tag_strong))

\* what messageClass made of the message it was given
ClassFollowsAuthor ==
    class # NotCalled =>
        IF tmsg.Type = "system"
        THEN class = <<"message", "system-message">>
        ELSE /\ Len(class) \in {2, 3}
             /\ class[1] = "message"
             /\ class[2] = (IF tmsg.Author = <<>> THEN "sent" ELSE "received")
             /\ Len(class) = 3 => class[3] \in {"image-message", "video-message",
                                                "audio-message", "sticker-message",
                                                "contact-message", "document-message"}

\* the handler has built the message of a request
Built == msgSender # NoSender /\ tmsg # NotBuilt

SelfSender(s) == ToLower(s) = <<"b", "o", "t">> \/ ToLower(s) = <<"u", "s", "e", "r">>

\* C23 as stated: the class is sent exactly when the author is empty, a system
\* message has the system class, and the handler gives a message the empty
\* author exactly when its sender is "bot" or "user" in any case.
C23_AuthorEmptinessDecides ==
    /\ ClassFollowsAuthor
    /\ Built => (tmsg.Author = <<>> <=> SelfSender(msgSender))

\* C23, amended: the class is sent exactly when the author is empty, a system
\* message has the system class, and the handler gives a message the empty
\* author exactly when its sender is empty or is "bot" or "user" in any case;
\* any other sender is the author.
C23_AuthorEmptinessAmended ==
    /\ ClassFollowsAuthor
    /\ Built => /\ tmsg.Author = <<>> <=> (msgSender = <<>> \/ SelfSender(msgSender))
                /\ tmsg.Author # <<>> => tmsg.Author = msgSender

\* the message of sender "BOT" was built and classified as sent
C23_Witness ==
    /\ Built
    /\ msgSender = <<"B", "O", "T">>
    /\ class = <<"message", "sent">>

\* s is a prefix of t
IsPrefix(s, t) == Len(s) <= Len(t) /\ SubSeq(t, 1, Len(s)) = s

\* the steps of one capture with options o, in the order of the specification:
\* the browser is allocated, then navigate-blank, set-content (two renderer
\* calls), set-viewport and the capture steps of the mode
ExpectedOps(o) ==
    <<"Allocate", "Navigate", "GetFrameTree", "SetDocumentContent", "EmulateViewport">>
        \o (IF o.IsFullPage THEN <<"FullScreenshot">>
            ELSE IF o.Selector # "" THEN <<"WaitVisible", "LogVisible", "Screenshot">>
            ELSE <<"CaptureScreenshot">>)

IssuedNames == [i \in 1..Len(issued) |-> issued[i].op]

\* an operation is issued only by a call that is between two operations, with
\* no error so far
IssuedInTurn ==
    issued' # issued => /\ pc = "run" /\ runErr = "nil"
                        /\ Len(issued') = Len(issued) + 1
                        /\ SubSeq(issued', 1, Len(issued)) = issued

\* the same of the page operations of the puppeteer-backed service
JsIssuedInTurn ==
    jsIssued' # jsIssued => \/ jsIssued' = <<>>
                            \/ /\ jsOutcome = JsPending
                               /\ jsIssued' = Append(jsIssued, jpc)

\* C24: the operations of one capture are issued one after another in the order
\* navigate-blank, set-content, set-viewport, capture steps of the mode (the
\* puppeteer-backed service: set-content, measuring, set-viewport, capture),
\* each after the one before it returned without error and none twice; after
\* the first failure none is issued.
C24_OperationsInOrder ==
    /\ [](Called => IsPrefix(IssuedNames, ExpectedOps(options)))
    /\ [][IssuedInTurn]_vars
    /\ [](IsPrefix(jsIssued, JsPageOps))
    /\ [][JsIssuedInTurn]_vars

\* a call returned whose set-viewport operation failed: what was issued ends there
C24_Witness ==
    /\ pc = "returned"
    /\ runErr = "other"
    /\ IssuedNames = <<"Allocate", "Navigate", "GetFrameTree", "SetDocumentContent",
                       "EmulateViewport">>

\* the tag of a delimiter
TagOf(d) == CASE d = "*" -> Tag_strong [] d = "_" -> Tag_em [] d = "~" -> Tag_del

\* s holds the delimiter d twice, with a line break between the two
BrokenPair(s, d) ==
    LET at == {i \in 1..Len(s) : s[i] = d}
    IN  /\ Cardinality(at) = 2
        /\ \E i \in at, j \in at, k \in 1..Len(s) : i < k /\ k < j /\ s[k] = "\n"

\* C25: formatContentHTML inserts no <strong>, <em> or <del> for a pair of
\* delimiters that a line break separates.
C25_NoSpanAcrossLines ==
    goHTML # NotCalled =>
        \A d \in {"*", "_", "~"} :
            BrokenPair(content, d) => ~Contains(goHTML, OpenTag(TagOf(d)))

\* C26: formatContentHTML and convertWhatsAppToHTMLAdvanced make the same
\* output of every body.
C26_GoReplicatesAdvanced ==
    (goHTML # NotCalled /\ advHTML # NotCalled) => goHTML = advHTML

\* browsers that are connected and that this.browser does not refer to
Orphans == running \ {thisBrowser}

\* C27: at most one launch is under way at a time, and no connected browser is
\* without a reference in this.browser.
C27_SingleBrowser ==
    /\ Cardinality({p \in Procs : cpc[p] = "launching"}) <= 1
    /\ Orphans = {}

\* the capture mode the built task list stands for
Mode(t) ==
    CASE t[Len(t)].op = "FullScreenshot" -> "FullPage"
      [] t[Len(t)].op = "Screenshot" -> "Element"
      [] t[Len(t)].op = "CaptureScreenshot" -> "Viewport"

\* C28: a call made by ScreenshotHandler has a non-empty selector and is in
\* FullPage mode when the request sets isFullPage and in Element mode
\* otherwise; the viewport capture is never built nor issued.
C28_NoViewportThroughHandler ==
    hpc = "screenshot" =>
        /\ options.Selector # ""
        /\ Mode(tasks) = IF req.HasOptions /\ Raw.IsFullPage
                         THEN "FullPage" ELSE "Element"
        /\ "CaptureScreenshot" \notin IssuedOps

C28_Witness ==
    /\ hpc = "screenshot"
    /\ req.HasOptions /\ Raw.IsFullPage /\ Raw.Selector = ""
    /\ Mode(tasks) = "FullPage"
    /\ result = "ok"
    /\ issued[Len(issued)].op = "FullScreenshot"

\* new ApiError(500, 'Failed to generate screenshot')
IsGenerateError(name, status, message) ==
    name = "ApiError" /\ status = 500 /\ message = "Failed to generate screenshot"

C30_SettledOnceAndEventually ==
    /\ [][rtPromise.state # "pending" =>
            (rtPromise' = rtPromise \/ rtPromise'.state = "pending")]_vars
    /\ (rpc = "stream") ~> (rtPromise.state # "pending")

=============================================================================
